---- MODULE Spec2Model ----
(***************************************************************************)
(* Background message queue of IGN Enhancer 2 (lib/services/message-queue) *)
(* and the Sender it drives (lib/utils/account-state).                     *)
(*                                                                         *)
(* The extension runs on one JavaScript event loop.  Every `await` ends an *)
(* atomic step: the code between two awaits runs without interleaving, and *)
(* other tasks run while a task is suspended.  A storage call              *)
(* (browser.storage.local.get / set) takes effect when it is issued; its   *)
(* caller continues in a later step.                                       *)
(***************************************************************************)
EXTENDS Integers, Sequences, FiniteSets, TLC

VARIABLES
    storedQueue,         \* browser.storage.local['messageQueue']
    now,                 \* Date.now(), in milliseconds
    events,              \* number of outside events so far (bounds the run)
    isProcessing,        \* module variable isProcessing
    processingInterval,  \* module variable processingInterval (set or not)
    pc,                  \* position of each processQueue invocation
    queue,               \* processQueue's local `queue`
    sel,                 \* index in `queue` of processQueue's `pendingMessage`
    outcome,             \* what the Sender gave processQueue: `response` / `error`
    cpc,                 \* position of each queue-store call (add/remove/clear)
    cqueue,              \* the call's local `queue`
    carg,                \* the call's numeric argument (messageId, olderThanHours)
    cacct,               \* addToMessageQueue's accountId
    cnew,                \* addToMessageQueue's `newMessage.id`
    removed,             \* history: ids of the jobs a removeFromQueue call took out
    stuck,               \* history: the jobs that were 'processing' at a restart
    delivered,           \* history: ids of the jobs an attempt posted with success
    accountStates,       \* browser.storage.local['accountStates']
    jar,                 \* the browser's cookies for the forum's domains
    localStorage,        \* window.localStorage
    uiAccounts,          \* AccountManager's React state `accounts`
    activatingAccountId, \* AccountManager's React state `activatingAccountId`
    loading,             \* AccountManager's React state `loading`
    sw,                  \* each handleSwitchAccount invocation: position and locals
    sc,                  \* each call of the account store: position and locals
    calls                \* number of account-store and switch calls so far

vars == <<storedQueue, now, events, isProcessing, processingInterval,
          pc, queue, sel, outcome, cpc, cqueue, carg, cacct, cnew,
          removed, stuck, delivered, accountStates, jar, localStorage, uiAccounts,
          activatingAccountId, loading, sw, sc, calls>>

-----------------------------------------------------------------------------
(* Bounds of the model *)

\* Outside events in a run: calls of the queue store, Sender outcomes and
\* clock advances.
MaxEvents == 5
\* Jobs enqueued in a run in which every attempt is followed to its end.
MaxJobs == 2

(* Program constants *)

MAX_RETRIES == 3
PROCESSING_INTERVAL == 1000
RetryDelay == 30
DefaultWait == 30
MsPerSecond == 1000
DefaultSweepHours == 24
MsPerHour == 3600000

\* JavaScript `undefined` in a numeric optional field.
Undef == -1
\* JavaScript `undefined` in the optional `error` string.
NoError == "undefined"

\* processQueue invocations that can be suspended at once, and callers of
\* the queue store that can be suspended at once
Cycles == {1, 2}
Clients == {1}
AccountIds == {"acct-1"}

\* Amounts by which the clock advances between steps: one polling interval,
\* one fixed retry delay.
TickSteps == {PROCESSING_INTERVAL, RetryDelay * MsPerSecond}

-----------------------------------------------------------------------------
(* QueuedMessage *)

NewMessage(accountId, t) ==
    [id |-> t, accountId |-> accountId, timestamp |-> t, status |-> "pending",
     error |-> NoError, retryCount |-> 0, antiFloodCount |-> Undef,
     retryAfter |-> Undef, ended |-> Undef]

\* (x || 0)
OrZero(x) == IF x = Undef THEN 0 ELSE x

\* !x for an optional number: undefined and 0 are falsy
Falsy(x) == x = Undef \/ x = 0

-----------------------------------------------------------------------------
(* The forum's answer to the POST, and the Sender *)

Keywords == {"cookie", "wait", "security", "csrf"}
\* number in "<n> seconds" of an error text; Undef when the text has none
Hints == {Undef, 1}

\* errors[0]: the keywords the text contains and its "<n> seconds" number
Texts == [kw : SUBSET Keywords, secs : Hints]

\* ok: 2xx; parse: the body is JSON; status: data.status; errors: data.errors
Responses ==
    [ok : BOOLEAN, parse : {TRUE}, status : {"ok", "other"},
     errors : {<<>>, <<[kw |-> {"wait"}, secs |-> 1]>>}]
    \cup [ok : {TRUE}, parse : {TRUE}, status : {"error"},
          errors : {<<>>} \cup {<<t>> : t \in Texts}]
    \cup [ok : {FALSE}, parse : {TRUE}, status : {"error"},
          errors : {<<>>, <<[kw |-> {"wait"}, secs |-> 1]>>}]
    \cup [ok : BOOLEAN, parse : {FALSE}, status : {"other"}, errors : {<<>>}]

\* What goes wrong before the POST: nothing, accounts[accountId] missing,
\* no xf_csrf cookie, the page GET is not ok, fetch rejects.
PreFailures == {"none", "noAccount", "noCsrf", "pageFail", "network"}

\* a response matters only when the POST is made
NoResponse == [ok |-> FALSE, parse |-> FALSE, status |-> "other", errors |-> <<>>]

SenderInputs ==
    [pre : {"none"}, resp : Responses]
    \cup [pre : PreFailures \ {"none"}, resp : {NoResponse}]

NoText == [kw |-> {}, secs |-> Undef]

\* A thrown value: `type` is its 'type' property ("none" for an Error
\* instance, which has none), isError is `instanceof Error`.  processQueue
\* copies the message of an Error without reading it: every such text is
\* written "error.message".
Thrown(type, retryAfter, message, isError) ==
    [kind |-> "throw", type |-> type, retryAfter |-> retryAfter,
     message |-> message, isError |-> isError,
     ok |-> FALSE, parse |-> FALSE, status |-> "other", first |-> NoText,
     hasErrors |-> FALSE]

\* A returned Response, as processQueue reads it: response.ok, whether
\* response.json() parses, data.status, data.errors?.[0], data.errors truthy.
Returned(resp) ==
    [kind |-> "response", type |-> "none", retryAfter |-> Undef,
     message |-> "", isError |-> FALSE,
     ok |-> resp.ok, parse |-> resp.parse,
     status |-> IF resp.parse THEN resp.status ELSE "other",
     first |-> IF resp.parse /\ resp.errors # <<>> THEN resp.errors[1] ELSE NoText,
     hasErrors |-> resp.parse /\ resp.errors # <<>>]

\* no Sender outcome yet
NoOutcome ==
    [kind |-> "none", type |-> "none", retryAfter |-> Undef,
     message |-> "", isError |-> FALSE,
     ok |-> FALSE, parse |-> FALSE, status |-> "other", first |-> NoText,
     hasErrors |-> FALSE]

\* errorMsg.match(/(\d+) seconds/) ? parseInt(..) : 30
WaitTime(text) == IF text.secs # Undef THEN text.secs ELSE DefaultWait

MakePostRequest(resp) ==
    IF resp.ok
    THEN IF resp.parse /\ resp.status = "error" /\ resp.errors # <<>>
         THEN LET errorMsg == resp.errors[1] IN
              IF "cookie" \in errorMsg.kw
              THEN Thrown("auth", Undef, "Cookie error", FALSE)
              ELSE IF "wait" \in errorMsg.kw
              THEN Thrown("antiflood", WaitTime(errorMsg), "wait", FALSE)
              ELSE IF "security" \in errorMsg.kw \/ "csrf" \in errorMsg.kw
              THEN Thrown("security", Undef, "security", FALSE)
              ELSE Thrown("none", Undef, "error.message", TRUE)
         ELSE Returned(resp)
    ELSE Thrown("none", Undef, "error.message", TRUE)

SendForumPostWithStoredCookies(in) ==
    CASE in.pre = "noAccount" -> Thrown("none", Undef, "error.message", TRUE)
      [] in.pre = "noCsrf"    -> Thrown("none", Undef, "error.message", TRUE)
      [] in.pre = "pageFail"  -> Thrown("none", Undef, "error.message", TRUE)
      [] in.pre = "network"   -> Thrown("none", Undef, "error.message", TRUE)
      [] OTHER                -> MakePostRequest(in.resp)

-----------------------------------------------------------------------------
(* processQueue: what it does to pendingMessage for each Sender outcome *)

\* error instanceof Error ? error.message : String(error)
ErrorMessage(err) == IF err.isError THEN err.message ELSE "[object Object]"

\* catch block, error.type === 'security'
SecurityFailure(msg, err) ==
    [msg EXCEPT !.status = "error",
                !.error = "Security error: " \o ErrorMessage(err)]

AntiFloodRetry_CountsRetry(msg, err) ==
    [msg EXCEPT !.antiFloodCount = OrZero(msg.antiFloodCount) + 1,
                !.retryCount = msg.retryCount + 1,
                !.status = "pending",
                !.retryAfter = IF err.retryAfter # Undef THEN err.retryAfter
                               ELSE DefaultWait,
                !.error = ErrorMessage(err)]

\* catch block, error.type === 'antiflood'
AntiFloodRetry(msg, err) ==
    [msg EXCEPT !.antiFloodCount = OrZero(msg.antiFloodCount) + 1,
                !.status = "pending",
                !.retryAfter = IF err.retryAfter # Undef THEN err.retryAfter
                               ELSE DefaultWait,
                !.error = ErrorMessage(err)]

ExceptionRetry_KeepsRetrying(msg, err) ==
    [msg EXCEPT !.status = "pending",
                !.retryAfter = RetryDelay,
                !.error = ErrorMessage(err)]

\* catch block, any other thrown value
ExceptionRetry(msg, err) ==
    IF msg.retryCount >= MAX_RETRIES
    THEN [msg EXCEPT !.status = "error", !.error = ErrorMessage(err)]
    ELSE [msg EXCEPT !.retryCount = msg.retryCount + 1,
                     !.status = "pending",
                     !.retryAfter = RetryDelay,
                     !.error = ErrorMessage(err)]

\* the catch block
HandleException(msg, err) ==
    IF err.type = "security" THEN SecurityFailure(msg, err)
    ELSE IF err.type = "antiflood" THEN AntiFloodRetry(msg, err)
    ELSE ExceptionRetry(msg, err)

\* "Other error" and "HTTP error": count the retry, give up at MAX_RETRIES
CountRetry(msg, text) ==
    LET n == msg.retryCount + 1 IN
    IF n >= MAX_RETRIES
    THEN [msg EXCEPT !.retryCount = n, !.status = "error", !.error = text]
    ELSE [msg EXCEPT !.retryCount = n, !.status = "pending",
                     !.retryAfter = RetryDelay, !.error = text]

MarkCompleted_DropsWait(msg) ==
    [msg EXCEPT !.status = "completed", !.retryAfter = Undef]

\* data.status === 'ok'
MarkCompleted(msg) == [msg EXCEPT !.status = "completed"]

HandleResponse_AnyOkCompletes(msg, r) ==
    IF r.ok THEN MarkCompleted(msg) ELSE CountRetry(msg, "HTTP error")

\* the try block after the Sender returned `response` and its JSON parsed
HandleResponse(msg, r) ==
    IF r.ok
    THEN IF r.status = "ok"
         THEN MarkCompleted(msg)
         ELSE IF r.status = "error" /\ r.hasErrors /\ "wait" \in r.first.kw
         THEN [msg EXCEPT !.antiFloodCount = OrZero(msg.antiFloodCount) + 1,
                          !.status = "pending",
                          !.retryAfter = WaitTime(r.first),
                          !.error = "wait"]
         ELSE IF r.status = "error" /\ r.hasErrors /\ "security" \in r.first.kw
         THEN [msg EXCEPT !.status = "error", !.error = "Security error: security"]
         ELSE CountRetry(msg, IF r.hasErrors THEN "errors" ELSE "Unknown error")
    ELSE CountRetry(msg, "HTTP error")

\* response.json() rejects on a body that is not JSON: the catch block runs
SyntaxError == Thrown("none", Undef, "error.message", TRUE)

HandleOutcome(msg, out) ==
    IF out.kind = "throw" THEN HandleException(msg, out)
    ELSE IF out.ok /\ ~out.parse THEN HandleException(msg, SyntaxError)
    ELSE HandleResponse(msg, out)

-----------------------------------------------------------------------------
(* processQueue: selection *)

IsReady_IgnoresWait(msg, t) == msg.status = "pending"

IsReady_ReclaimsInFlight(msg, t) ==
    /\ msg.status \in {"pending", "processing"}
    /\ (Falsy(msg.retryAfter) \/ t >= msg.timestamp + msg.retryAfter * MsPerSecond)

\* the predicate of queue.find(...)
IsReady_RetriesFailed(msg, t) ==
    \/ msg.status = "error"
    \/ /\ msg.status = "pending"
       /\ (Falsy(msg.retryAfter) \/ t >= msg.timestamp + msg.retryAfter * MsPerSecond)

IsReady(msg, t) ==
    /\ msg.status = "pending"
    /\ (Falsy(msg.retryAfter) \/ t >= msg.timestamp + msg.retryAfter * MsPerSecond)

FindPending_HeadBlocks(q, t) ==
    IF \E i \in 1..Len(q) : q[i].status = "pending"
    THEN LET h == CHOOSE i \in 1..Len(q) :
                    q[i].status = "pending"
                    /\ \A j \in 1..(i - 1) : q[j].status # "pending" IN
         IF IsReady(q[h], t) THEN h ELSE 0
    ELSE 0

\* queue.find(...): index of the first ready message, 0 when there is none
FindPending(q, t) ==
    IF \E i \in 1..Len(q) : IsReady(q[i], t)
    THEN CHOOSE i \in 1..Len(q) :
            IsReady(q[i], t) /\ \A j \in 1..(i - 1) : ~IsReady(q[j], t)
    ELSE 0

-----------------------------------------------------------------------------
(* AccountState and AccountStates (lib/utils/account-state) *)

\* Account-store and switch calls in a run.
MaxCalls == 4

\* forum users (profile.userId); NoUser: no profile, or nobody logged in
Users == {7, 8}
NoUser == 0
FirstUser == 7

\* keys of `accounts`: a user id (getCurrentAccountState) or
\* Date.now().toString() (createPendingAccount); NoId: `undefined`
PendingKey == 1
Ids == {PendingKey} \cup Users
NoId == 0

\* contents of a localStorage: empty, or some entries
NoEntries == 0
LocalStates == {NoEntries, 1}
\* localStorage: null, as an imported account can have it
NullEntries == -1

\* The forum's cookies: `auth` is the user the essential cookies (xf_user,
\* xf_session, xf_csrf, xf_dbWriteForced) belong to, `complete` whether all
\* of them are there, `notice` whether xf_push_notice_dismiss is there.
NoCookies == [auth |-> NoUser, complete |-> TRUE, notice |-> FALSE]
Jars ==
    [auth : {NoUser}, complete : {TRUE}, notice : BOOLEAN]
      \cup [auth : Users, complete : BOOLEAN, notice : BOOLEAN]

\* account names (name: createPendingAccount's argument or
\* profile.displayName); NoName is the empty string
NoName == ""
SomeName == "name"
Names == {NoName, SomeName}

\* An AccountState: userId is profile?.userId, isResyncing FALSE also
\* stands for an absent flag.
AccountState(id, userId, status, cookies, local) ==
    [id |-> id, name |-> SomeName, userId |-> userId, status |-> status,
     isResyncing |-> FALSE, cookies |-> cookies, localStorage |-> local]

\* result[ACCOUNT_STATES_KEY] || { accounts: {} }
EmptyStates ==
    [accounts |-> <<>>, activeAccountId |-> NoId, pendingAccountId |-> NoId]

\* states.accounts[id] = account
PutAccount(accounts, id, account) ==
    [k \in DOMAIN accounts \cup {id} |-> IF k = id THEN account ELSE accounts[k]]

\* delete states.accounts[id]
DropAccount(accounts, id) ==
    [k \in DOMAIN accounts \ {id} |-> accounts[k]]

\* Object.values(accounts).find(pred): integer-like keys are enumerated in
\* ascending order; the key of the first match, NoId when there is none
FirstKey(matching) ==
    IF matching = {} THEN NoId
    ELSE CHOOSE k \in matching : \A j \in matching : k <= j

\* fetchUserProfile(): the user the forum sees behind the cookies, or null
\* (nobody logged in, the page could not be fetched or parsed)
FetchUserProfile ==
    {NoUser} \cup (IF jar.auth # NoUser THEN {jar.auth} ELSE {})

-----------------------------------------------------------------------------
(* The account store as pure functions of the blob that was read *)

SaveAccountState_KeepsOthers(states, state) ==
    [accounts |-> PutAccount(states.accounts, state.id, state),
     activeAccountId |-> state.id,
     pendingAccountId |-> states.pendingAccountId]

SaveAccountState_KeepsActive(states, state) ==
    LET duplicate == FirstKey({k \in DOMAIN states.accounts :
                                  /\ states.accounts[k].userId = state.userId
                                  /\ states.accounts[k].id # state.id})
        accounts == IF duplicate # NoId
                    THEN DropAccount(states.accounts, states.accounts[duplicate].id)
                    ELSE states.accounts IN
    [accounts |-> PutAccount(accounts, state.id, state),
     activeAccountId |-> IF duplicate # NoId /\ states.activeAccountId = duplicate
                         THEN state.id ELSE states.activeAccountId,
     pendingAccountId |-> states.pendingAccountId]

\* saveAccountState after `await getAccountStates()`
SaveAccountState(states, state) ==
    LET st == IF state.id \in DOMAIN states.accounts
                 /\ states.accounts[state.id].isResyncing
              THEN [state EXCEPT !.isResyncing = FALSE]
              ELSE state
        duplicate == FirstKey({k \in DOMAIN states.accounts :
                                  /\ states.accounts[k].userId = st.userId
                                  /\ states.accounts[k].id # st.id})
        accounts == IF duplicate # NoId
                    THEN DropAccount(states.accounts, states.accounts[duplicate].id)
                    ELSE states.accounts IN
    [accounts |-> PutAccount(accounts, st.id, st),
     activeAccountId |-> st.id,
     pendingAccountId |-> states.pendingAccountId]

DeleteAccountState_KeepsPointers(states, accountId) ==
    [states EXCEPT !.accounts = DropAccount(states.accounts, accountId)]

\* deleteAccountState after `await getAccountStates()`
DeleteAccountState(states, accountId) ==
    [accounts |-> DropAccount(states.accounts, accountId),
     activeAccountId |-> IF states.activeAccountId = accountId THEN NoId
                         ELSE states.activeAccountId,
     pendingAccountId |-> IF states.pendingAccountId = accountId THEN NoId
                          ELSE states.pendingAccountId]

StartResyncingThrows_Never(states, accountId) == FALSE

\* startResyncing: `if (!account) throw new Error('Account not found')`
StartResyncingThrows(states, accountId) ==
    accountId \notin DOMAIN states.accounts

\* startResyncing after `await getAccountStates()`, the account being there
StartResyncing(states, accountId) ==
    [states EXCEPT !.accounts[accountId].isResyncing = TRUE]

\* createPendingAccount after `await getAccountStates()`
CreatePendingAccount(states, t, name) ==
    LET accounts == IF states.pendingAccountId # NoId
                    THEN DropAccount(states.accounts, states.pendingAccountId)
                    ELSE states.accounts
        pendingAccount ==
            [AccountState(t, NoUser, "pending", NoCookies, NoEntries)
                EXCEPT !.name = name] IN
    [accounts |-> PutAccount(accounts, t, pendingAccount),
     activeAccountId |-> states.activeAccountId,
     pendingAccountId |-> t]

\* getCurrentAccountState(), the profile having been fetched
GetCurrentAccountState(profile) ==
    AccountState(profile, profile, "pending", jar, localStorage)

-----------------------------------------------------------------------------
(* exportAccountData and importAccountData: the JSON text is modelled by    *)
(* what JSON.parse yields from it, as far as the validation looks at it     *)

\* JSON.stringify of an AccountState, parsed again: a property whose value is
\* undefined is left out; `rest` is everything the validation does not look at
JsonAccount(account) ==
    [value |-> "object",
     id |-> "text",
     name |-> IF account.name = NoName THEN "empty" ELSE "text",
     cookies |-> "array",
     localStorage |-> IF account.localStorage = NullEntries THEN "null"
                      ELSE "object",
     timestamp |-> "number",
     rest |-> account]

\* JSON.parse(JSON.stringify(states, null, 2)): the pointers that are
\* undefined are not in the text
Stringify(states) ==
    [parses |-> TRUE,
     top |-> "object",
     fields |-> {"accounts"}
                 \cup (IF states.activeAccountId # NoId
                       THEN {"activeAccountId"} ELSE {})
                 \cup (IF states.pendingAccountId # NoId
                       THEN {"pendingAccountId"} ELSE {}),
     accounts |-> [k \in DOMAIN states.accounts |->
                     JsonAccount(states.accounts[k])],
     activeAccountId |-> states.activeAccountId,
     pendingAccountId |-> states.pendingAccountId]

\* no data: an import call that is not there
NoData == [Stringify(EmptyStates) EXCEPT !.top = "none"]

\* what the validation can find in a parsed account
AccountKinds ==
    [id : {"absent", "empty", "text"},
     name : {"absent", "empty", "text"},
     cookies : {"absent", "array"},
     localStorage : {"absent", "text", "null", "object"},
     timestamp : {"absent", "zero", "number"}]

\* a parsed account with no flaw, and with one
GoodKinds ==
    [id |-> "text", name |-> "text", cookies |-> "array",
     localStorage |-> "object", timestamp |-> "number"]
FewKinds ==
    {GoodKinds,
     [GoodKinds EXCEPT !.id = "absent"],
     [GoodKinds EXCEPT !.name = "empty"],
     [GoodKinds EXCEPT !.cookies = "object"],
     [GoodKinds EXCEPT !.localStorage = "text"],
     [GoodKinds EXCEPT !.localStorage = "null"],
     [GoodKinds EXCEPT !.timestamp = "absent"]}

\* the account of user u in a backup file, written as `kinds` says
BackupAccount(u, kinds) ==
    [value |-> "object", id |-> kinds.id, name |-> kinds.name,
     cookies |-> kinds.cookies, localStorage |-> kinds.localStorage,
     timestamp |-> kinds.timestamp,
     rest |-> AccountState(u, u, "synced",
                           [auth |-> u, complete |-> TRUE, notice |-> FALSE],
                           NoEntries)]

\* a backup file with these accounts and the first of them active
Backup(accounts) ==
    [parses |-> TRUE, top |-> "object",
     fields |-> {"accounts", "activeAccountId"},
     accounts |-> accounts,
     activeAccountId |-> FirstUser,
     pendingAccountId |-> NoId]

\* texts handed to importAccountData: not JSON, JSON that is no object,
\* an object without `accounts`, no account at all, one account of every
\* kind, a null account, two accounts of which each can have a flaw
ImportTexts ==
    {[Backup(<<>>) EXCEPT !.parses = FALSE], Backup(<<>>)}
      \cup {[Backup(<<>>) EXCEPT !.top = top] : top \in {"null", "scalar", "array"}}
      \cup {[Backup(<<>>) EXCEPT !.fields = {"activeAccountId"}]}
      \cup {Backup([k \in {FirstUser} |-> BackupAccount(k, kinds)]) :
                kinds \in AccountKinds}
      \cup {Backup([k \in {FirstUser} |->
                      [BackupAccount(k, GoodKinds) EXCEPT !.value = "null"]])}
      \cup {Backup([k \in Users |->
                      BackupAccount(k, IF k = FirstUser THEN first ELSE second)]) :
                first \in FewKinds, second \in FewKinds}

\* the AccountStates a parsed text is when it is read back from storage
StatesOf(data) ==
    [accounts |-> [k \in DOMAIN data.accounts |->
                     [data.accounts[k].rest EXCEPT
                        !.localStorage =
                           IF data.accounts[k].localStorage = "null"
                           THEN NullEntries ELSE @]],
     activeAccountId |-> IF "activeAccountId" \in data.fields
                         THEN data.activeAccountId ELSE NoId,
     pendingAccountId |-> IF "pendingAccountId" \in data.fields
                          THEN data.pendingAccountId ELSE NoId]

AccountInvalid_IgnoresName(account) ==
    \/ account.id \in {"absent", "empty"}
    \/ account.cookies # "array"
    \/ account.localStorage \notin {"object", "null"}
    \/ account.timestamp \in {"absent", "zero"}

\* importAccountData: the test made on each account; typeof null is 'object'
AccountInvalid(account) ==
    \/ account.id \in {"absent", "empty"}
    \/ account.name \in {"absent", "empty"}
    \/ account.cookies # "array"
    \/ account.localStorage \notin {"object", "null"}
    \/ account.timestamp \in {"absent", "zero"}

\* importAccountData up to its browser.storage.local.set: the error it throws
\* (every one is rethrown as 'Erro ao importar dados: ...'), or "none"
ImportError(data) ==
    IF ~data.parses THEN "SyntaxError"
    ELSE IF data.top # "object" \/ "accounts" \notin data.fields
    THEN "Formato de dados invalido"
    ELSE IF \E k \in DOMAIN data.accounts : data.accounts[k].value = "null"
    THEN "TypeError"
    ELSE IF \E k \in DOMAIN data.accounts : AccountInvalid(data.accounts[k])
    THEN "Estrutura de conta invalida"
    ELSE "none"

-----------------------------------------------------------------------------
TypeOK ==
    /\ now \in Nat /\ events \in 0..MaxEvents
    /\ isProcessing \in BOOLEAN /\ processingInterval \in BOOLEAN
    /\ pc \in [Cycles -> {"idle", "select", "send", "finish"}]
    /\ cpc \in [Clients -> {"idle", "add", "added", "remove", "clear"}]

InitQueue ==
    /\ storedQueue = <<>>
    /\ now = 0
    /\ events = 0
    /\ isProcessing = TRUE
    /\ processingInterval = TRUE
    /\ pc = [p \in Cycles |-> IF p = 1 THEN "select" ELSE "idle"]
    /\ queue = [p \in Cycles |-> <<>>]
    /\ sel = [p \in Cycles |-> 0]
    /\ outcome = [p \in Cycles |-> NoOutcome]
    /\ cpc = [c \in Clients |-> "idle"]
    /\ cqueue = [c \in Clients |-> <<>>]
    /\ carg = [c \in Clients |-> 0]
    /\ cacct = [c \in Clients |-> "acct-1"]
    /\ cnew = [c \in Clients |-> 0]
    /\ removed = {}
    /\ stuck = {}
    /\ delivered = {}

\* no handleSwitchAccount invocation, no account-store call
NoSwitch ==
    [pc |-> "idle", accountId |-> NoId, accounts |-> EmptyStates,
     states |-> EmptyStates, previousAccountId |-> NoId,
     previousCookies |-> NoCookies, error |-> "none", recovery |-> "none",
     switchSuccessful |-> FALSE, replay |-> "none", written |-> "all",
     active0 |-> NoId, jar0 |-> NoCookies, local0 |-> NoEntries]
NoState == AccountState(NoId, NoUser, "pending", NoCookies, NoEntries)
NoCall ==
    [pc |-> "idle", id |-> NoId, profile |-> NoUser, state |-> NoState,
     states |-> EmptyStates, thrown |-> "none", name |-> SomeName,
     data |-> NoData, pre |-> "none", csrfCookie |-> FALSE,
     requests |-> <<>>, result |-> NoOutcome]

Switches == {1, 2}
StoreClients == {1}

\* the extension just installed: nothing stored, nobody logged in
InitAccounts ==
    /\ accountStates = EmptyStates
    /\ jar = NoCookies
    /\ localStorage = NoEntries
    /\ uiAccounts = EmptyStates
    /\ activatingAccountId = NoId
    /\ loading = FALSE
    /\ sw = [s \in Switches |-> NoSwitch]
    /\ sc = [c \in StoreClients |-> NoCall]
    /\ calls = 0

Init == InitQueue /\ InitAccounts

procVars == <<isProcessing, processingInterval, pc, queue, sel, outcome>>
clientVars == <<cpc, cqueue, carg, cacct, cnew>>
clockVars == <<now, events>>
\* the variables of the account store and of the account manager
acctVars == <<accountStates, jar, localStorage, uiAccounts,
              activatingAccountId, loading, sw, sc, calls>>
\* what no action of the queue store or of processQueue touches
otherVars == <<stuck, delivered, acctVars>>
\* the variables of the message queue
queueVars == <<storedQueue, now, events, isProcessing, processingInterval,
               pc, queue, sel, outcome, cpc, cqueue, carg, cacct, cnew,
               removed, stuck, delivered>>

\* one more outside event
Event == events < MaxEvents /\ events' = events + 1


-----------------------------------------------------------------------------
(* processQueue, one action per stretch of code between two awaits *)

\* An invocation takes the lowest free slot of the model.
FreeSlot(p) == pc[p] = "idle" /\ \A r \in Cycles : r < p => pc[r] # "idle"

\* processQueue() up to `await getMessageQueue()`: the guard, the flag, the read
ProcessQueueStart(p) ==
    /\ FreeSlot(p)
    /\ ~isProcessing
    /\ isProcessing' = TRUE
    /\ pc' = [pc EXCEPT ![p] = "select"]
    /\ queue' = [queue EXCEPT ![p] = storedQueue]
    /\ UNCHANGED <<sel, outcome>>

\* window.setInterval(processQueue, PROCESSING_INTERVAL) fires; with
\* isProcessing set the call returns at once and changes nothing
IntervalFires ==
    /\ processingInterval
    /\ \E p \in Cycles : ProcessQueueStart(p)
    /\ UNCHANGED <<storedQueue, processingInterval, clientVars, clockVars>>
    /\ UNCHANGED <<removed, otherVars>>

\* from the read to `await saveMessageQueue(queue)`: find the message and
\* mark it 'processing'; with no ready message the finally block ends the cycle
SelectMessage(p) ==
    /\ pc[p] = "select"
    /\ LET i == FindPending(queue[p], now) IN
       IF i = 0
       THEN /\ pc' = [pc EXCEPT ![p] = "idle"]
            /\ isProcessing' = FALSE
            /\ queue' = [queue EXCEPT ![p] = <<>>]
            /\ UNCHANGED <<storedQueue, sel>>
       ELSE /\ queue' = [queue EXCEPT ![p][i].status = "processing"]
            /\ sel' = [sel EXCEPT ![p] = i]
            /\ storedQueue' = queue'[p]
            /\ pc' = [pc EXCEPT ![p] = "send"]
            /\ UNCHANGED isProcessing
    /\ UNCHANGED <<processingInterval, outcome, clientVars, clockVars>>
    /\ UNCHANGED <<removed, otherVars>>

\* the Sender settles: the outcome is applied to pendingMessage and the
\* finally block issues saveMessageQueue(queue).  `ended` is not a field of
\* the code's QueuedMessage: it keeps the clock reading at which the last
\* attempt on the message was handled.
Settle(p, inputs) ==
    /\ pc[p] = "send"
    /\ \E in \in inputs :
         LET out == SendForumPostWithStoredCookies(in)
             msg == queue[p][sel[p]] IN
         /\ outcome' = [outcome EXCEPT ![p] = out]
         /\ queue' = [queue EXCEPT ![p][sel[p]] =
                                  [HandleOutcome(msg, out) EXCEPT !.ended = now]]
         /\ delivered' = IF out.kind = "response" /\ out.ok /\ out.parse
                            /\ out.status = "ok"
                         THEN delivered \cup {msg.id} ELSE delivered
    /\ storedQueue' = queue'[p]
    /\ pc' = [pc EXCEPT ![p] = "finish"]
    /\ UNCHANGED <<isProcessing, processingInterval, sel, clientVars, now>>
    /\ UNCHANGED <<removed, stuck, acctVars>>

\* the same, counted as an outside event
AttemptFrom(p, inputs) == Event /\ Settle(p, inputs)

Attempt(p) == AttemptFrom(p, SenderInputs)

\* the outer finally block, after the last save completed
FinishCycle(p) ==
    /\ pc[p] = "finish"
    /\ isProcessing' = FALSE
    /\ pc' = [pc EXCEPT ![p] = "idle"]
    /\ queue' = [queue EXCEPT ![p] = <<>>]
    /\ sel' = [sel EXCEPT ![p] = 0]
    /\ outcome' = [outcome EXCEPT ![p] = NoOutcome]
    /\ UNCHANGED <<storedQueue, processingInterval, clientVars, clockVars>>
    /\ UNCHANGED <<removed, otherVars>>

-----------------------------------------------------------------------------
(* The queue store: addToMessageQueue, removeFromQueue, clearCompletedMessages *)

\* ensureProcessingIsActive()
EnsureProcessingIsActive ==
    IF ~isProcessing /\ ~processingInterval
    THEN /\ processingInterval' = TRUE
         /\ \E p \in Cycles : ProcessQueueStart(p)
    ELSE UNCHANGED procVars

\* addToMessageQueue up to `await getMessageQueue()`
AddBegin(c, accountId) ==
    /\ cpc[c] = "idle"
    /\ Event
    /\ cpc' = [cpc EXCEPT ![c] = "add"]
    /\ cqueue' = [cqueue EXCEPT ![c] = storedQueue]
    /\ cacct' = [cacct EXCEPT ![c] = accountId]
    /\ UNCHANGED <<storedQueue, carg, cnew, procVars, now>>
    /\ UNCHANGED <<removed, otherVars>>

\* build newMessage, push it, issue saveMessageQueue(queue)
AddWrite(c) ==
    /\ cpc[c] = "add"
    /\ LET newMessage == NewMessage(cacct[c], now) IN
       /\ storedQueue' = Append(cqueue[c], newMessage)
       /\ cnew' = [cnew EXCEPT ![c] = newMessage.id]
    /\ cpc' = [cpc EXCEPT ![c] = "added"]
    /\ cqueue' = [cqueue EXCEPT ![c] = <<>>]
    /\ removed' = removed \ {now}
    /\ delivered' = delivered \ {now}
    /\ UNCHANGED <<carg, cacct, procVars, clockVars, stuck, acctVars>>

\* after the save: ensureProcessingIsActive(), return newMessage
AddReturn(c) ==
    /\ cpc[c] = "added"
    /\ EnsureProcessingIsActive
    /\ cpc' = [cpc EXCEPT ![c] = "idle"]
    /\ cnew' = [cnew EXCEPT ![c] = 0]
    /\ UNCHANGED <<storedQueue, cqueue, carg, cacct, clockVars>>
    /\ UNCHANGED <<removed, otherVars>>

\* the persisted queue holds a job with this id and none of them is 'processing'
Removable(messageId) ==
    /\ \E i \in 1..Len(storedQueue) : storedQueue[i].id = messageId
    /\ \A i \in 1..Len(storedQueue) :
          storedQueue[i].id = messageId => storedQueue[i].status # "processing"

\* removeFromQueue up to `await getMessageQueue()`
RemoveBegin(c, messageId) ==
    /\ cpc[c] = "idle"
    /\ Event
    /\ cpc' = [cpc EXCEPT ![c] = "remove"]
    /\ cqueue' = [cqueue EXCEPT ![c] = storedQueue]
    /\ carg' = [carg EXCEPT ![c] = messageId]
    /\ UNCHANGED <<storedQueue, cacct, cnew, procVars, now>>
    /\ UNCHANGED <<removed, otherVars>>

\* queue.filter(msg => msg.id !== messageId), saveMessageQueue(updatedQueue)
RemoveWrite(c) ==
    /\ cpc[c] = "remove"
    /\ LET Keep(msg) == msg.id # carg[c] IN
       storedQueue' = SelectSeq(cqueue[c], Keep)
    /\ cpc' = [cpc EXCEPT ![c] = "idle"]
    /\ cqueue' = [cqueue EXCEPT ![c] = <<>>]
    /\ carg' = [carg EXCEPT ![c] = 0]
    /\ removed' = IF Removable(carg[c]) THEN removed \cup {carg[c]} ELSE removed
    /\ UNCHANGED <<cacct, cnew, procVars, clockVars, otherVars>>

KeepOnSweep_AnyStatus(msg, cutoffTime) == ~(msg.timestamp < cutoffTime)

\* the predicate of clearCompletedMessages's queue.filter(...)
KeepOnSweep(msg, cutoffTime) ==
    ~(msg.status = "completed" /\ msg.timestamp < cutoffTime)

\* clearCompletedMessages up to `await getMessageQueue()`
ClearBegin(c, olderThanHours) ==
    /\ cpc[c] = "idle"
    /\ Event
    /\ cpc' = [cpc EXCEPT ![c] = "clear"]
    /\ cqueue' = [cqueue EXCEPT ![c] = storedQueue]
    /\ carg' = [carg EXCEPT ![c] = olderThanHours]
    /\ UNCHANGED <<storedQueue, cacct, cnew, procVars, now>>
    /\ UNCHANGED <<removed, otherVars>>

\* the cutoff, the filter, saveMessageQueue(updatedQueue)
ClearWrite(c) ==
    /\ cpc[c] = "clear"
    /\ LET cutoffTime == now - carg[c] * MsPerHour
           Keep(msg) == KeepOnSweep(msg, cutoffTime) IN
       storedQueue' = SelectSeq(cqueue[c], Keep)
    /\ cpc' = [cpc EXCEPT ![c] = "idle"]
    /\ cqueue' = [cqueue EXCEPT ![c] = <<>>]
    /\ carg' = [carg EXCEPT ![c] = 0]
    /\ UNCHANGED <<cacct, cnew, procVars, clockVars>>
    /\ UNCHANGED <<removed, otherVars>>

\* ids a caller can name: those of the messages in storage
KnownIds == {storedQueue[i].id : i \in 1..Len(storedQueue)}

-----------------------------------------------------------------------------
(* The clock *)

Tick(d) ==
    /\ Event
    /\ now' = now + d
    /\ UNCHANGED <<storedQueue, procVars, clientVars>>
    /\ UNCHANGED <<removed, otherVars>>

-----------------------------------------------------------------------------
(* stopProcessing(): exported, reachable from any importer of the module *)

StopProcessing ==
    /\ Event
    /\ processingInterval' = FALSE
    /\ isProcessing' = FALSE
    /\ UNCHANGED <<storedQueue, pc, queue, sel, outcome, clientVars, now>>
    /\ UNCHANGED <<removed, otherVars>>

\* ensureProcessingIsActive() called on its own (background script)
EnsureCall ==
    /\ Event
    /\ ~isProcessing /\ ~processingInterval
    /\ EnsureProcessingIsActive
    /\ UNCHANGED <<storedQueue, clientVars, now>>
    /\ UNCHANGED <<removed, otherVars>>

-----------------------------------------------------------------------------
(* The account store: one action per stretch of code between two awaits *)

\* one more account-store or switch call
Call == calls < MaxCalls /\ calls' = calls + 1

\* what a call of the account store leaves alone
storeFrame == <<jar, localStorage, uiAccounts, activatingAccountId, loading,
                sw, queueVars>>

\* snapshots handed to saveAccountState
Snapshots ==
    {AccountState(id, u, st, IF u = NoUser THEN NoCookies
                             ELSE [auth |-> u, complete |-> TRUE, notice |-> FALSE],
                  NoEntries) :
        id \in Ids, u \in {NoUser} \cup Users, st \in {"pending", "synced"}}

\* saveAccountState up to `await getAccountStates()`
SaveBegin(c, state) ==
    /\ sc[c].pc = "idle"
    /\ Call
    /\ sc' = [sc EXCEPT ![c] = [NoCall EXCEPT !.pc = "save", !.state = state,
                                              !.states = accountStates]]
    /\ UNCHANGED <<accountStates, storeFrame>>

\* the rest of saveAccountState, with its browser.storage.local.set
SaveWrite(c) ==
    /\ sc[c].pc = "save"
    /\ accountStates' = SaveAccountState(sc[c].states, sc[c].state)
    /\ sc' = [sc EXCEPT ![c] = NoCall]
    /\ UNCHANGED <<calls, storeFrame>>

\* deleteAccountState up to `await getAccountStates()`
DeleteBegin(c, accountId) ==
    /\ sc[c].pc = "idle"
    /\ Call
    /\ sc' = [sc EXCEPT ![c] = [NoCall EXCEPT !.pc = "delete", !.id = accountId,
                                              !.states = accountStates]]
    /\ UNCHANGED <<accountStates, storeFrame>>

\* the rest of deleteAccountState
DeleteWrite(c) ==
    /\ sc[c].pc = "delete"
    /\ accountStates' = DeleteAccountState(sc[c].states, sc[c].id)
    /\ sc' = [sc EXCEPT ![c] = NoCall]
    /\ UNCHANGED <<calls, storeFrame>>

\* startResyncing up to `await getAccountStates()`
ResyncBegin(c, accountId) ==
    /\ sc[c].pc = "idle"
    /\ Call
    /\ sc' = [sc EXCEPT ![c] = [NoCall EXCEPT !.pc = "resync", !.id = accountId,
                                              !.states = accountStates]]
    /\ UNCHANGED <<accountStates, storeFrame>>

\* the rest of startResyncing: 'Account not found' is thrown before any write
ResyncWrite(c) ==
    /\ sc[c].pc = "resync"
    /\ IF StartResyncingThrows(sc[c].states, sc[c].id)
       THEN /\ UNCHANGED accountStates
            /\ sc' = [sc EXCEPT ![c] = [NoCall EXCEPT !.thrown = "Account not found"]]
       ELSE /\ accountStates' = StartResyncing(sc[c].states, sc[c].id)
            /\ sc' = [sc EXCEPT ![c] = NoCall]
    /\ UNCHANGED <<calls, storeFrame>>

\* createPendingAccount up to `await getAccountStates()`
PendingBegin(c, name) ==
    /\ sc[c].pc = "idle"
    /\ Call
    /\ sc' = [sc EXCEPT ![c] = [NoCall EXCEPT !.pc = "pending",
                                              !.name = name,
                                              !.states = accountStates]]
    /\ UNCHANGED <<accountStates, storeFrame>>

\* the rest of createPendingAccount
PendingWrite(c) ==
    /\ sc[c].pc = "pending"
    /\ accountStates' = CreatePendingAccount(sc[c].states, PendingKey, sc[c].name)
    /\ sc' = [sc EXCEPT ![c] = NoCall]
    /\ UNCHANGED <<calls, storeFrame>>

\* syncCurrentUser: checkCurrentUser's fetchUserProfile; without a profile
\* 'Nenhum usuario logado' is thrown
SyncBegin(c) ==
    /\ sc[c].pc = "idle"
    /\ Call
    /\ \E profile \in FetchUserProfile :
         sc' = [sc EXCEPT ![c] = IF profile = NoUser THEN NoCall
                                 ELSE [NoCall EXCEPT !.pc = "syncCheck",
                                                     !.profile = profile]]
    /\ UNCHANGED <<accountStates, storeFrame>>

\* checkCurrentUser's getAccountStates() and its find: existingAccount
SyncCheck(c) ==
    /\ sc[c].pc = "syncCheck"
    /\ LET existing == FirstKey({k \in DOMAIN accountStates.accounts :
                          accountStates.accounts[k].userId = sc[c].profile}) IN
       sc' = [sc EXCEPT ![c].pc = "syncRead",
                        ![c].id = IF existing = NoId THEN NoId
                                  ELSE accountStates.accounts[existing].id]
    /\ UNCHANGED <<accountStates, calls, storeFrame>>

\* syncCurrentUser's own getAccountStates()
SyncRead(c) ==
    /\ sc[c].pc = "syncRead"
    /\ sc' = [sc EXCEPT ![c].pc = "syncWrite", ![c].states = accountStates]
    /\ UNCHANGED <<accountStates, calls, storeFrame>>

\* getCurrentAccountState() (it throws without a profile) and the write
SyncWrite(c) ==
    /\ sc[c].pc = "syncWrite"
    /\ \E profile \in FetchUserProfile :
         IF profile = NoUser
         THEN UNCHANGED accountStates
         ELSE LET current == GetCurrentAccountState(profile)
                  id == IF sc[c].id # NoId THEN sc[c].id ELSE current.id
                  currentState == [current EXCEPT !.status = "synced", !.id = id]
                  states == sc[c].states IN
              accountStates' =
                  [accounts |-> PutAccount(states.accounts, id, currentState),
                   activeAccountId |-> id,
                   pendingAccountId |-> states.pendingAccountId]
    /\ sc' = [sc EXCEPT ![c] = NoCall]
    /\ UNCHANGED <<calls, storeFrame>>

\* blobs handed to importAccountData: every account has the fields the
\* validation asks for; the accounts belong to one user
ImportBlobs ==
    {[accounts |-> [k \in keys |->
                      AccountState(k, 7, "synced",
                                   [auth |-> 7, complete |-> TRUE, notice |-> FALSE],
                                   NoEntries)],
      activeAccountId |-> a, pendingAccountId |-> NoId] :
        keys \in SUBSET Ids, a \in {NoId} \cup Ids}

\* importAccountData of a blob that passes the validation
ImportAccountData(blob) ==
    /\ Call
    /\ accountStates' = blob
    /\ UNCHANGED <<sc, storeFrame>>

\* importAccountData(jsonData): JSON.parse, the validation and the write; an
\* error is thrown before the write.  The call's argument and its error are
\* kept in the call record.
ImportText(c, data) ==
    /\ sc[c].pc = "idle"
    /\ Call
    /\ accountStates' = IF ImportError(data) = "none" THEN StatesOf(data)
                        ELSE accountStates
    /\ sc' = [sc EXCEPT ![c] = [NoCall EXCEPT !.thrown = ImportError(data),
                                              !.data = data]]
    /\ UNCHANGED storeFrame

\* exportAccountData up to `await getAccountStates()`
ExportBegin(c) ==
    /\ sc[c].pc = "idle"
    /\ Call
    /\ sc' = [sc EXCEPT ![c] = [NoCall EXCEPT !.pc = "export",
                                              !.states = accountStates]]
    /\ UNCHANGED <<accountStates, storeFrame>>

\* the rest of exportAccountData, and importAccountData of what it returned
ImportExported(c) ==
    /\ sc[c].pc = "export"
    /\ LET data == Stringify(sc[c].states) IN
       /\ accountStates' = IF ImportError(data) = "none" THEN StatesOf(data)
                           ELSE accountStates
       /\ sc' = [sc EXCEPT ![c] = [NoCall EXCEPT !.thrown = ImportError(data),
                                                 !.data = data]]
    /\ UNCHANGED <<calls, storeFrame>>

\* the user logs in to the forum, or out of it, in the browser
ForumLogin(u) ==
    /\ jar.auth # u
    /\ jar' = IF u = NoUser THEN [jar EXCEPT !.auth = NoUser, !.complete = TRUE]
              ELSE [jar EXCEPT !.auth = u, !.complete = TRUE]
    /\ UNCHANGED <<accountStates, localStorage, uiAccounts, activatingAccountId,
                   loading, sw, sc, calls, queueVars>>

-----------------------------------------------------------------------------
(* The Options page: handleSyncCurrentUser, loadAccounts and                 *)
(* handleSwitchAccount, one action per stretch of code between two awaits    *)
(* (runs of cookie calls are taken as one stretch).  React state is taken    *)
(* as visible to every handler as soon as it is set.                         *)

\* clearCurrentSession: the essential cookies are removed, the others stay
ClearCurrentSession(cookies) ==
    [cookies EXCEPT !.auth = NoUser, !.complete = TRUE]

\* storeCurrentSession after `await getAccountStates()`: the blob it writes,
\* or the blob it read when it returns early or throws
StoreCurrentSession(states) ==
    IF states.activeAccountId = NoId
       \/ states.activeAccountId \notin DOMAIN states.accounts
    THEN states
    ELSE [states EXCEPT !.accounts[states.activeAccountId].cookies = jar,
                        !.accounts[states.activeAccountId].localStorage =
                             localStorage]

\* how many of a run of browser.cookies.set calls went through
WriteOutcomes == {"all", "some", "none"}

\* how the browser.cookies.set calls for a cookie list can end: with no
\* essential cookie to set none of them can fail
WritesFor(cookies) ==
    IF cookies.auth = NoUser THEN {"all"} ELSE WriteOutcomes

SwitchToAccountState_AbortsOnFailure(states, accountId, written) ==
    IF accountId \notin DOMAIN states.accounts
    THEN [thrown |-> TRUE, jar |-> jar, localStorage |-> localStorage,
          wrote |-> FALSE, states |-> states]
    ELSE LET account == states.accounts[accountId]
             cookiesToSet == account.cookies.auth # NoUser IN
         IF cookiesToSet /\ written # "all"
         THEN [thrown |-> TRUE,
               jar |-> [auth |-> NoUser, complete |-> TRUE, notice |-> TRUE],
               localStorage |-> NoEntries,
               wrote |-> FALSE, states |-> states]
         ELSE [thrown |-> FALSE,
               jar |-> [auth |-> account.cookies.auth,
                        complete |-> account.cookies.complete,
                        notice |-> TRUE],
               localStorage |-> account.localStorage,
               wrote |-> TRUE,
               states |-> [states EXCEPT !.activeAccountId = accountId]]

\* switchToAccountState after `await getAccountStates()`: whether it throws,
\* the cookies and the localStorage it leaves, whether it writes the blob
\* and the blob
SwitchToAccountState(states, accountId, written) ==
    IF accountId \notin DOMAIN states.accounts
    THEN [thrown |-> TRUE, jar |-> jar, localStorage |-> localStorage,
          wrote |-> FALSE, states |-> states]
    ELSE LET account == states.accounts[accountId]
             cookiesToSet == account.cookies.auth # NoUser IN
         IF cookiesToSet /\ written = "none"
         THEN [thrown |-> TRUE,
               jar |-> [auth |-> NoUser, complete |-> TRUE, notice |-> TRUE],
               localStorage |-> NoEntries,
               wrote |-> FALSE, states |-> states]
         ELSE [thrown |-> FALSE,
               jar |-> [auth |-> account.cookies.auth,
                        complete |-> IF cookiesToSet /\ written = "some"
                                     THEN FALSE ELSE account.cookies.complete,
                        notice |-> TRUE],
               localStorage |-> account.localStorage,
               wrote |-> TRUE,
               states |-> [states EXCEPT !.activeAccountId = accountId]]

\* checkCurrentUser's existingAccount for a profile
ExistingAccount(states, profile) ==
    FirstKey({k \in DOMAIN states.accounts :
                 states.accounts[k].userId = profile})

\* the cookie list has no element
NoCookieAtAll(cookies) == cookies.auth = NoUser /\ ~cookies.notice

\* loadAccounts
LoadAccounts ==
    /\ uiAccounts # accountStates
    /\ \A s \in Switches : sw[s].pc \in {"idle", "done"}
    /\ uiAccounts' = accountStates
    /\ UNCHANGED <<accountStates, jar, localStorage, activatingAccountId,
                   loading, sw, sc, calls, queueVars>>

\* handleSyncCurrentUser with nothing else running in between, the forum
\* answering every profile request of the handler the same way:
\* storeCurrentSession, syncCurrentUser, loadAccounts, checkCurrentUserStatus
HandleSyncCurrentUser ==
    /\ ~loading
    /\ \A s \in Switches : sw[s].pc \in {"idle", "done"}
    /\ Call
    /\ jar.auth # NoUser
    /\ LET profile == jar.auth
           stored == StoreCurrentSession(accountStates)
           existing == ExistingAccount(stored, profile)
           current == GetCurrentAccountState(profile)
           id == IF existing # NoId THEN stored.accounts[existing].id
                 ELSE current.id
           currentState == [current EXCEPT !.status = "synced", !.id = id]
           states == [stored EXCEPT
                         !.accounts = PutAccount(stored.accounts, id, currentState),
                         !.activeAccountId = id] IN
       /\ accountStates' = states
       /\ uiAccounts' = states
    /\ UNCHANGED <<jar, localStorage, activatingAccountId, loading, sw, sc,
                   queueVars>>

\* what handleSwitchAccount leaves alone
switchFrame == <<sc, queueVars>>

\* handleSwitchAccount(accountId) up to storeCurrentSession's
\* `await getAccountStates()`: the guard, and the `accounts` of the render
\* the handler belongs to
SwitchBegin(s, accountId) ==
    /\ sw[s].pc = "idle"
    /\ Call
    /\ accountId \in DOMAIN uiAccounts.accounts
    /\ IF activatingAccountId # NoId \/ loading
       THEN sw' = sw
       ELSE sw' = [sw EXCEPT ![s] =
                     [NoSwitch EXCEPT !.pc = "store",
                                      !.accountId = accountId,
                                      !.accounts = uiAccounts,
                                      !.states = accountStates,
                                      !.active0 = accountStates.activeAccountId,
                                      !.jar0 = jar,
                                      !.local0 = localStorage]]
    /\ UNCHANGED <<accountStates, jar, localStorage, uiAccounts,
                   activatingAccountId, loading, switchFrame>>

\* the rest of storeCurrentSession (its errors are swallowed)
SwitchStore(s) ==
    /\ sw[s].pc = "store"
    /\ LET states == sw[s].states IN
       IF states.activeAccountId # NoId
          /\ states.activeAccountId \in DOMAIN states.accounts
       THEN accountStates' = StoreCurrentSession(states)
       ELSE UNCHANGED accountStates
    /\ sw' = [sw EXCEPT ![s].pc = "backup"]
    /\ UNCHANGED <<jar, localStorage, uiAccounts, activatingAccountId, loading,
                   calls, switchFrame>>

\* previousAccountId and the backup of the cookies
SwitchBackup(s) ==
    /\ sw[s].pc = "backup"
    /\ sw' = [sw EXCEPT ![s].pc = "mark",
                        ![s].previousAccountId = sw[s].accounts.activeAccountId,
                        ![s].previousCookies = jar]
    /\ UNCHANGED <<accountStates, jar, localStorage, uiAccounts,
                   activatingAccountId, loading, calls, switchFrame>>

\* setActivatingAccountId(accountId), setLoading(true), and
\* switchToAccountState up to `await getAccountStates()`
SwitchMark(s) ==
    /\ sw[s].pc = "mark"
    /\ activatingAccountId' = sw[s].accountId
    /\ loading' = TRUE
    /\ sw' = [sw EXCEPT ![s].pc = "apply", ![s].states = accountStates]
    /\ UNCHANGED <<accountStates, jar, localStorage, uiAccounts, calls,
                   switchFrame>>

\* the rest of switchToAccountState(accountId)
SwitchApply(s) ==
    /\ sw[s].pc = "apply"
    /\ \E written \in WritesFor(IF sw[s].accountId \in DOMAIN sw[s].states.accounts
                               THEN sw[s].states.accounts[sw[s].accountId].cookies
                               ELSE NoCookies) :
         LET r == SwitchToAccountState(sw[s].states, sw[s].accountId, written) IN
         /\ jar' = r.jar
         /\ localStorage' = r.localStorage
         /\ accountStates' = IF r.wrote THEN r.states ELSE accountStates
         /\ sw' = [sw EXCEPT ![s].pc = IF r.thrown THEN "recover" ELSE "verify",
                             ![s].written = written,
                             ![s].error = IF r.thrown THEN "switch" ELSE "none"]
    /\ UNCHANGED <<uiAccounts, activatingAccountId, loading, calls, switchFrame>>

\* the verification: checkCurrentUser up to twice, then the comparison with
\* the target account of the handler's `accounts`
SwitchVerify(s) ==
    /\ sw[s].pc = "verify"
    /\ \E profile \in FetchUserProfile :
         LET accounts == sw[s].accounts
             accountId == sw[s].accountId IN
         IF profile = NoUser
         THEN /\ sw' = [sw EXCEPT ![s].pc = "recover", ![s].error = "noProfile"]
              /\ UNCHANGED uiAccounts
         ELSE IF accounts.accounts[accountId].userId # profile
         THEN /\ sw' = [sw EXCEPT ![s].pc = "recover", ![s].error = "mismatch"]
              /\ UNCHANGED uiAccounts
         ELSE /\ sw' = [sw EXCEPT ![s].pc = "finally",
                                  ![s].switchSuccessful = TRUE]
              /\ uiAccounts' = [uiAccounts EXCEPT !.activeAccountId = accountId]
    /\ UNCHANGED <<accountStates, jar, localStorage, activatingAccountId,
                   loading, calls, switchFrame>>

\* the catch block up to the check after the replay, or up to the fallback
\* switchToAccountState's `await getAccountStates()`
SwitchRecover(s) ==
    /\ sw[s].pc = "recover"
    /\ localStorage' = NoEntries
    /\ LET cleared == ClearCurrentSession(jar)
           previousCookies == sw[s].previousCookies IN
       IF sw[s].previousAccountId = NoId
       THEN /\ jar' = cleared
            /\ sw' = [sw EXCEPT ![s].pc = "finally", ![s].recovery = "cleared"]
       ELSE IF NoCookieAtAll(previousCookies)
       THEN /\ jar' = cleared
            /\ sw' = [sw EXCEPT ![s].pc = "fallback",
                                ![s].states = accountStates]
       ELSE IF previousCookies.auth = NoUser
       THEN /\ jar' = cleared
            /\ sw' = [sw EXCEPT ![s].pc = "finally", ![s].recovery = "failed"]
       ELSE \E written \in WriteOutcomes :
              /\ jar' = IF written = "none" THEN cleared
                        ELSE [cleared EXCEPT
                                 !.auth = previousCookies.auth,
                                 !.complete = IF written = "some" THEN FALSE
                                              ELSE previousCookies.complete]
              /\ sw' = [sw EXCEPT ![s].pc = "recheck", ![s].replay = written]
    /\ UNCHANGED <<accountStates, uiAccounts, activatingAccountId, loading,
                   calls, switchFrame>>

\* the check after the replay: with a profile the page's state is updated,
\* without one switchToAccountState(previousAccountId) is called
SwitchRecheck(s) ==
    /\ sw[s].pc = "recheck"
    /\ \E profile \in FetchUserProfile :
         IF profile # NoUser
         THEN /\ uiAccounts' = [uiAccounts EXCEPT
                                   !.activeAccountId = sw[s].previousAccountId]
              /\ sw' = [sw EXCEPT ![s].pc = "finally", ![s].recovery = "replayed"]
         ELSE /\ UNCHANGED uiAccounts
              /\ sw' = [sw EXCEPT ![s].pc = "fallback",
                                  ![s].states = accountStates]
    /\ UNCHANGED <<accountStates, jar, localStorage, activatingAccountId,
                   loading, calls, switchFrame>>

\* the rest of switchToAccountState(previousAccountId) and the check after
\* it; a throw reaches the inner catch, which clears the session
SwitchFallback(s) ==
    /\ sw[s].pc = "fallback"
    /\ \E written \in WriteOutcomes :
         LET r == SwitchToAccountState(sw[s].states, sw[s].previousAccountId,
                                       written) IN
         /\ accountStates' = IF r.wrote THEN r.states ELSE accountStates
         /\ \E profile \in {NoUser} \cup
                           (IF r.jar.auth # NoUser THEN {r.jar.auth} ELSE {}) :
              IF r.thrown \/ profile = NoUser
              THEN /\ jar' = ClearCurrentSession(r.jar)
                   /\ localStorage' = NoEntries
                   /\ UNCHANGED uiAccounts
                   /\ sw' = [sw EXCEPT ![s].pc = "finally",
                                       ![s].recovery = "failed"]
              ELSE /\ jar' = r.jar
                   /\ localStorage' = r.localStorage
                   /\ uiAccounts' = [uiAccounts EXCEPT
                                        !.activeAccountId = sw[s].previousAccountId]
                   /\ sw' = [sw EXCEPT ![s].pc = "finally",
                                       ![s].recovery = "switchedBack"]
    /\ UNCHANGED <<activatingAccountId, loading, calls, switchFrame>>

\* the finally block: after a switch that did not succeed loadAccounts();
\* after a successful one the marker and the loading flag are reset
SwitchFinally(s) ==
    /\ sw[s].pc = "finally"
    /\ IF sw[s].switchSuccessful
       THEN /\ activatingAccountId' = NoId
            /\ loading' = FALSE
            /\ sw' = [sw EXCEPT ![s].pc = "done"]
            /\ UNCHANGED uiAccounts
       ELSE /\ uiAccounts' = accountStates
            /\ sw' = [sw EXCEPT ![s].pc = "status"]
            /\ UNCHANGED <<activatingAccountId, loading>>
    /\ UNCHANGED <<accountStates, jar, localStorage, calls, switchFrame>>

\* checkCurrentUserStatus() of the finally block, with the handler's
\* `accounts`: without a profile and with an active account it calls
\* attemptAccountRecovery, otherwise it updates the page's state and the
\* marker and the loading flag are reset
SwitchStatus(s) ==
    /\ sw[s].pc = "status"
    /\ \E profile \in FetchUserProfile :
         LET accounts == sw[s].accounts
             existing == ExistingAccount(accountStates, profile) IN
         IF profile = NoUser /\ accounts.activeAccountId # NoId
            /\ accounts.activeAccountId \in DOMAIN accounts.accounts
         THEN /\ loading' = TRUE
              /\ sw' = [sw EXCEPT ![s].pc = "restore",
                                  ![s].states = accountStates]
              /\ UNCHANGED <<uiAccounts, activatingAccountId>>
         ELSE /\ uiAccounts' =
                   IF profile # NoUser /\ existing # NoId
                      /\ accountStates.accounts[existing].id
                           # accounts.activeAccountId
                   THEN [uiAccounts EXCEPT !.activeAccountId =
                            accountStates.accounts[existing].id]
                   ELSE uiAccounts
              /\ activatingAccountId' = NoId
              /\ loading' = FALSE
              /\ sw' = [sw EXCEPT ![s].pc = "done"]
    /\ UNCHANGED <<accountStates, jar, localStorage, calls, switchFrame>>

\* attemptAccountRecovery: the rest of switchToAccountState(
\* accounts.activeAccountId); then the marker and the loading flag are reset
SwitchRestore(s) ==
    /\ sw[s].pc = "restore"
    /\ \E written \in WriteOutcomes :
         LET r == SwitchToAccountState(sw[s].states,
                                       sw[s].accounts.activeAccountId, written) IN
         /\ jar' = r.jar
         /\ localStorage' = r.localStorage
         /\ accountStates' = IF r.wrote THEN r.states ELSE accountStates
    /\ activatingAccountId' = NoId
    /\ loading' = FALSE
    /\ sw' = [sw EXCEPT ![s].pc = "done"]
    /\ UNCHANGED <<uiAccounts, calls, switchFrame>>

\* the user logs in to the forum, or out of it, while no
\* handleSwitchAccount invocation is under way
LoginBetweenSwitches(u) ==
    /\ \A s \in Switches : sw[s].pc \in {"idle", "done"}
    /\ ForumLogin(u)

\* the steps of a handleSwitchAccount invocation after its guard
SwitchSteps(s) ==
    \/ SwitchStore(s)
    \/ SwitchBackup(s)
    \/ SwitchMark(s)
    \/ SwitchApply(s)
    \/ SwitchVerify(s)
    \/ SwitchRecover(s)
    \/ SwitchRecheck(s)
    \/ SwitchFallback(s)
    \/ SwitchFinally(s)
    \/ SwitchStatus(s)
    \/ SwitchRestore(s)

-----------------------------------------------------------------------------
(* sendForumPostWithStoredCookies, one action per stretch of code between   *)
(* two awaits; `requests` lists the fetch calls it has made                  *)

\* account.cookies.find(c => c.name === 'xf_csrf'): found or not.  A list
\* that was written in part can lack it.
CsrfCookie(cookies) ==
    IF cookies.auth = NoUser THEN {FALSE}
    ELSE IF cookies.complete THEN {TRUE}
    ELSE BOOLEAN

SenderCheck_NoCsrfCheck(states, accountId, csrfCookie) ==
    IF accountId \notin DOMAIN states.accounts THEN "noAccount" ELSE "none"

\* the two checks made before the first fetch
SenderCheck(states, accountId, csrfCookie) ==
    IF accountId \notin DOMAIN states.accounts THEN "noAccount"
    ELSE IF ~csrfCookie THEN "noCsrf"
    ELSE "none"

SenderLiveState_SwitchesSession(states, accountId) ==
    LET r == SwitchToAccountState(states, accountId, "all") IN
    [jar |-> r.jar, localStorage |-> r.localStorage, states |-> r.states]

\* what the Sender does to the cookie jar, the localStorage and the
\* persisted blob while it posts as accountId: the Cookie header is built
\* from account.cookies, nothing is set or stored
SenderLiveState(states, accountId) ==
    [jar |-> jar, localStorage |-> localStorage, states |-> accountStates]

\* sendForumPostWithStoredCookies up to `await getAccountStates()`
SendBegin(c, accountId) ==
    /\ sc[c].pc = "idle"
    /\ Call
    /\ sc' = [sc EXCEPT ![c] = [NoCall EXCEPT !.pc = "send", !.id = accountId,
                                              !.states = accountStates]]
    /\ UNCHANGED <<accountStates, storeFrame>>

\* the account lookup and the xf_csrf lookup, each throwing when it finds
\* nothing, then the Cookie header and the GET of the thread page
SendLookup(c) ==
    /\ sc[c].pc = "send"
    /\ LET states == sc[c].states
           accountId == sc[c].id
           cookies == IF accountId \in DOMAIN states.accounts
                      THEN states.accounts[accountId].cookies ELSE NoCookies IN
       \E csrfCookie \in CsrfCookie(cookies) :
          LET pre == SenderCheck(states, accountId, csrfCookie)
              live == SenderLiveState(states, accountId) IN
          /\ IF pre # "none"
             THEN /\ sc' = [sc EXCEPT ![c].pc = "idle", ![c].pre = pre,
                               ![c].csrfCookie = csrfCookie,
                               ![c].result = SendForumPostWithStoredCookies(
                                                [pre |-> pre, resp |-> NoResponse])]
                  /\ UNCHANGED <<jar, localStorage, accountStates>>
             ELSE /\ sc' = [sc EXCEPT ![c].pc = "page",
                                      ![c].csrfCookie = csrfCookie,
                                      ![c].requests = <<"GET">>]
                  /\ jar' = live.jar
                  /\ localStorage' = live.localStorage
                  /\ accountStates' = live.states
    /\ UNCHANGED <<uiAccounts, activatingAccountId, loading, sw, calls, queueVars>>

\* the answer to the GET: fetch rejects, the answer is not ok, or the token
\* is taken from the page (or made up) and the POST is made
SendPage(c) ==
    /\ sc[c].pc = "page"
    /\ \E pre \in {"none", "pageFail", "network"} :
         IF pre # "none"
         THEN sc' = [sc EXCEPT ![c].pc = "idle", ![c].pre = pre,
                        ![c].result = SendForumPostWithStoredCookies(
                                         [pre |-> pre, resp |-> NoResponse])]
         ELSE sc' = [sc EXCEPT ![c].pc = "post",
                               ![c].requests = Append(@, "POST")]
    /\ UNCHANGED <<accountStates, calls, storeFrame>>

\* the answer to the POST, as makePostRequest returns it or throws
SendPost(c) ==
    /\ sc[c].pc = "post"
    /\ \E resp \in Responses :
         sc' = [sc EXCEPT ![c].pc = "idle",
                          ![c].result = SendForumPostWithStoredCookies(
                                           [pre |-> "none", resp |-> resp])]
    /\ UNCHANGED <<accountStates, calls, storeFrame>>

-----------------------------------------------------------------------------
(* The background page is restarted: every suspended call is gone, the module *)
(* variables are initialised again and the module's last line runs            *)
(* ensureProcessingIsActive(), whose processQueue() reads the queue.          *)

Restart ==
    /\ Event
    /\ isProcessing' = TRUE
    /\ processingInterval' = TRUE
    /\ pc' = [p \in Cycles |-> IF p = 1 THEN "select" ELSE "idle"]
    /\ queue' = [p \in Cycles |-> IF p = 1 THEN storedQueue ELSE <<>>]
    /\ sel' = [p \in Cycles |-> 0]
    /\ outcome' = [p \in Cycles |-> NoOutcome]
    /\ cpc' = [c \in Clients |-> "idle"]
    /\ cqueue' = [c \in Clients |-> <<>>]
    /\ carg' = [c \in Clients |-> 0]
    /\ cnew' = [c \in Clients |-> 0]
    /\ stuck' = stuck \cup {storedQueue[i] : i \in
                              {k \in 1..Len(storedQueue) :
                                  storedQueue[k].status = "processing"}}
    /\ UNCHANGED <<storedQueue, cacct, removed, delivered, now, acctVars>>

-----------------------------------------------------------------------------
Next ==
    \/ IntervalFires
    \/ \E p \in Cycles : SelectMessage(p)
    \/ \E p \in Cycles : Attempt(p)
    \/ \E p \in Cycles : FinishCycle(p)
    \/ \E c \in Clients, a \in AccountIds : AddBegin(c, a)
    \/ \E c \in Clients : AddWrite(c)
    \/ \E c \in Clients : AddReturn(c)
    \/ \E c \in Clients, id \in KnownIds : RemoveBegin(c, id)
    \/ \E c \in Clients : RemoveWrite(c)
    \/ \E c \in Clients : ClearBegin(c, DefaultSweepHours)
    \/ \E c \in Clients : ClearWrite(c)
    \/ \E d \in TickSteps : Tick(d)

Spec == Init /\ [][Next]_vars

\* the same program with stopProcessing and ensureProcessingIsActive callable
NextStop ==
    \/ Next
    \/ StopProcessing
    \/ EnsureCall

SpecStop == Init /\ [][NextStop]_vars

\* the same program with a forum that answers every POST with a generic
\* application or HTTP failure, or a Sender that fails before the POST
GenericInputs ==
    {in \in SenderInputs :
        \/ in.pre # "none"
        \/ ~in.resp.ok
        \/ ~in.resp.parse
        \/ in.resp.status = "other"
        \/ in.resp.status = "error" /\ in.resp.errors = <<>>
        \/ in.resp.status = "error" /\ in.resp.errors # <<>>
           /\ in.resp.errors[1].kw = {}}

NextGeneric ==
    \/ IntervalFires
    \/ \E p \in Cycles : SelectMessage(p)
    \/ \E p \in Cycles : AttemptFrom(p, GenericInputs)
    \/ \E p \in Cycles : FinishCycle(p)
    \/ \E c \in Clients, a \in AccountIds : AddBegin(c, a)
    \/ \E c \in Clients : AddWrite(c)
    \/ \E c \in Clients : AddReturn(c)
    \/ \E d \in TickSteps : Tick(d)

SpecGeneric == Init /\ [][NextGeneric]_vars

\* the fixed retry delay passes once; it is not counted as an outside event
RetryDelayPasses ==
    /\ now < RetryDelay * MsPerSecond
    /\ now' = now + RetryDelay * MsPerSecond
    /\ UNCHANGED <<storedQueue, events, procVars, clientVars>>
    /\ UNCHANGED <<removed, otherVars>>

\* the same program with enqueues, a forum and a Sender that can answer and
\* fail in every way, and one retry delay passing
NextRetry ==
    \/ IntervalFires
    \/ \E p \in Cycles : SelectMessage(p)
    \/ \E p \in Cycles : Attempt(p)
    \/ \E p \in Cycles : FinishCycle(p)
    \/ \E c \in Clients, a \in AccountIds : AddBegin(c, a)
    \/ \E c \in Clients : AddWrite(c)
    \/ \E c \in Clients : AddReturn(c)
    \/ RetryDelayPasses

SpecRetry == Init /\ [][NextRetry]_vars

\* Sender inputs whose outcome is not anti-flood
NoFloodInputs ==
    {in \in SenderInputs :
        SendForumPostWithStoredCookies(in).type # "antiflood"}

\* a message of the persisted queue is pending and has to wait
SomeoneWaits ==
    \E i \in 1..Len(storedQueue) :
        storedQueue[i].status = "pending" /\ ~IsReady(storedQueue[i], now)

\* time advances by the retry delay; the clock is only followed while a
\* message waits for it
TimePasses ==
    /\ SomeoneWaits
    /\ now' = now + RetryDelay * MsPerSecond
    /\ UNCHANGED <<storedQueue, events, procVars, clientVars>>
    /\ UNCHANGED <<removed, otherVars>>

\* the interval fires while no addToMessageQueue call is between its read
\* and its write
Trigger == (\A c \in Clients : cpc[c] # "add") /\ IntervalFires

\* addToMessageQueue called while no cycle is in progress
Enqueue(c, a) ==
    /\ Len(storedQueue) < MaxJobs
    /\ \A p \in Cycles : pc[p] = "idle"
    /\ AddBegin(c, a)

\* the Sender settles with an outcome that is not anti-flood
SettleNoFlood(p) == Settle(p, NoFloodInputs) /\ UNCHANGED events

\* the queue with a few enqueues that do not overlap a cycle, a Sender that
\* never reports anti-flood, no removal, sweep, stop or restart, every
\* attempt followed to its end
NextLive ==
    \/ Trigger
    \/ \E p \in Cycles : SelectMessage(p)
    \/ \E p \in Cycles : SettleNoFlood(p)
    \/ \E p \in Cycles : FinishCycle(p)
    \/ \E c \in Clients, a \in AccountIds : Enqueue(c, a)
    \/ \E c \in Clients : AddWrite(c)
    \/ \E c \in Clients : AddReturn(c)
    \/ TimePasses

\* the interval keeps firing, awaited promises settle, time advances
SpecLive ==
    /\ Init /\ [][NextLive]_vars
    /\ WF_vars(Trigger)
    /\ WF_vars(\E p \in Cycles : SelectMessage(p))
    /\ WF_vars(\E p \in Cycles : SettleNoFlood(p))
    /\ WF_vars(\E p \in Cycles : FinishCycle(p))
    /\ WF_vars(\E c \in Clients : AddWrite(c))
    /\ WF_vars(\E c \in Clients : AddReturn(c))
    /\ WF_vars(TimePasses)

\* the same program in an extension whose background page can be restarted,
\* with callers that only enqueue
NextRestart ==
    \/ IntervalFires
    \/ \E p \in Cycles : SelectMessage(p)
    \/ \E p \in Cycles : Attempt(p)
    \/ \E p \in Cycles : FinishCycle(p)
    \/ \E c \in Clients, a \in AccountIds : AddBegin(c, a)
    \/ \E c \in Clients : AddWrite(c)
    \/ \E c \in Clients : AddReturn(c)
    \/ \E d \in TickSteps : Tick(d)
    \/ Restart

SpecRestart == Init /\ [][NextRestart]_vars

\* the same program over days: the clock also advances by an hour and by a
\* day, and the sweep is asked for one hour or for the default
SweepHours == {1, DefaultSweepHours}
SweepTicks == {PROCESSING_INTERVAL, MsPerHour, DefaultSweepHours * MsPerHour}

NextSweep ==
    \/ IntervalFires
    \/ \E p \in Cycles : SelectMessage(p)
    \/ \E p \in Cycles : Attempt(p)
    \/ \E p \in Cycles : FinishCycle(p)
    \/ \E c \in Clients, a \in AccountIds : AddBegin(c, a)
    \/ \E c \in Clients : AddWrite(c)
    \/ \E c \in Clients : AddReturn(c)
    \/ \E c \in Clients, h \in SweepHours : ClearBegin(c, h)
    \/ \E c \in Clients : ClearWrite(c)
    \/ \E d \in SweepTicks : Tick(d)

SpecSweep == Init /\ [][NextSweep]_vars

\* the account store used through saveAccountState alone
NextSave ==
    \/ \E c \in StoreClients, state \in Snapshots : SaveBegin(c, state)
    \/ \E c \in StoreClients : SaveWrite(c)

SpecSave == Init /\ [][NextSave]_vars

\* the account store used through saveAccountState, deleteAccountState,
\* startResyncing and syncCurrentUser, the user logging in and out
NextStore ==
    \/ NextSave
    \/ \E c \in StoreClients, id \in Ids : DeleteBegin(c, id)
    \/ \E c \in StoreClients : DeleteWrite(c)
    \/ \E c \in StoreClients, id \in Ids : ResyncBegin(c, id)
    \/ \E c \in StoreClients : ResyncWrite(c)
    \/ \E c \in StoreClients : SyncBegin(c)
    \/ \E c \in StoreClients : SyncCheck(c)
    \/ \E c \in StoreClients : SyncRead(c)
    \/ \E c \in StoreClients : SyncWrite(c)
    \/ \E u \in {NoUser} \cup Users : ForumLogin(u)

SpecStore == Init /\ [][NextStore]_vars

\* saveAccountState with createPendingAccount and importAccountData
NextImport ==
    \/ NextSave
    \/ \E c \in StoreClients, name \in Names : PendingBegin(c, name)
    \/ \E c \in StoreClients : PendingWrite(c)
    \/ \E blob \in ImportBlobs : ImportAccountData(blob)

SpecImport == Init /\ [][NextImport]_vars

\* saveAccountState with createPendingAccount and deleteAccountState
NextDelete ==
    \/ NextSave
    \/ \E c \in StoreClients, name \in Names : PendingBegin(c, name)
    \/ \E c \in StoreClients : PendingWrite(c)
    \/ \E c \in StoreClients, id \in Ids : DeleteBegin(c, id)
    \/ \E c \in StoreClients : DeleteWrite(c)

SpecDelete == Init /\ [][NextDelete]_vars

\* backups: createPendingAccount, importAccountData of any text, and
\* importAccountData of what exportAccountData returned
NextBackup ==
    \/ \E c \in StoreClients, name \in Names : PendingBegin(c, name)
    \/ \E c \in StoreClients : PendingWrite(c)
    \/ \E c \in StoreClients, data \in ImportTexts : ImportText(c, data)
    \/ \E c \in StoreClients : ExportBegin(c)
    \/ \E c \in StoreClients : ImportExported(c)

SpecBackup == Init /\ [][NextBackup]_vars

\* the Sender posting as a stored account while the user is logged in to the
\* forum: handleSyncCurrentUser, createPendingAccount, the user logging in
\* and out, sendForumPostWithStoredCookies
NextSend ==
    \/ \E u \in {NoUser} \cup Users : ForumLogin(u)
    \/ HandleSyncCurrentUser
    \/ \E c \in StoreClients, name \in {SomeName} : PendingBegin(c, name)
    \/ \E c \in StoreClients : PendingWrite(c)
    \/ \E c \in StoreClients, accountId \in Ids : SendBegin(c, accountId)
    \/ \E c \in StoreClients : SendLookup(c)
    \/ \E c \in StoreClients : SendPage(c)
    \/ \E c \in StoreClients : SendPost(c)

SpecSend == Init /\ [][NextSend]_vars

\* the Options page with one handleSwitchAccount click
NextSwitch ==
    \/ \E u \in {NoUser} \cup Users : LoginBetweenSwitches(u)
    \/ HandleSyncCurrentUser
    \/ LoadAccounts
    \/ \E accountId \in Ids : SwitchBegin(1, accountId)
    \/ SwitchSteps(1)

SpecSwitch == Init /\ [][NextSwitch]_vars

\* the Options page with handleSwitchAccount clicks that can overlap, one
\* user logging in
NextSwitches ==
    \/ LoginBetweenSwitches(FirstUser)
    \/ HandleSyncCurrentUser
    \/ \E s \in Switches, accountId \in Ids : SwitchBegin(s, accountId)
    \/ \E s \in Switches : SwitchSteps(s)

SpecSwitches == Init /\ [][NextSwitches]_vars

-----------------------------------------------------------------------------
(* Properties *)

\* the step of cycle p in which the Sender's outcome is applied and saved
AttemptStep(p) == pc[p] = "send" /\ pc'[p] = "finish"

\* the step of cycle p in which the next message is looked for
SelectStep(p) == pc[p] = "select" /\ pc'[p] # "select"

\* the message cycle p is working on
Current(p) == queue[p][sel[p]]

\* C1: a job whose third consecutive generic or HTTP failure has just been
\* handled (retryCount reached 3) is Failed with retryCount 3.  Checked with
\* a Sender that only ever fails generically, so the failures are consecutive.
C1_ThirdGenericFailureFails ==
    \A p \in Cycles :
        (pc[p] = "finish" /\ Current(p).retryCount >= MAX_RETRIES)
            => Current(p).status = "error" /\ Current(p).retryCount = 3

\* the Sender reported anti-flood throttling
OutcomeIsAntiFlood(o) ==
    \/ o.kind = "throw" /\ o.type = "antiflood"
    \/ o.kind = "response" /\ o.ok /\ o.parse /\ o.status = "error"
       /\ o.hasErrors /\ "wait" \in o.first.kw

\* the N of 'wait N seconds'
OutcomeWait(o) ==
    IF o.kind = "throw" THEN o.retryAfter
    ELSE IF o.first.secs # Undef THEN o.first.secs ELSE 30

\* C2: every anti-flood outcome returns the InFlight job to Pending with
\* notBeforeSeconds = N, antiFloodCount raised by exactly 1 and retryCount
\* unchanged (so anti-flood outcomes alone never fail a job).
C2_AntiFloodKeepsJobPending ==
    [][\A p \in Cycles :
         (AttemptStep(p) /\ OutcomeIsAntiFlood(outcome'[p])) =>
            LET old == Current(p)
                new == storedQueue'[sel[p]] IN
            /\ old.status = "processing"
            /\ new.id = old.id
            /\ new.status = "pending"
            /\ new.retryAfter = OutcomeWait(outcome'[p])
            /\ new.antiFloodCount =
                 (IF old.antiFloodCount = Undef THEN 1 ELSE old.antiFloodCount + 1)
            /\ new.retryCount = old.retryCount]_vars

\* C2 witness: a fresh job just received its second consecutive anti-flood
\* outcome and is Pending with retryCount 0 and antiFloodCount 2.
C2_Witness ==
    \E p \in Cycles :
        /\ pc[p] = "finish"
        /\ OutcomeIsAntiFlood(outcome[p])
        /\ Current(p).status = "pending"
        /\ Current(p).retryCount = 0
        /\ Current(p).antiFloodCount = 2
        /\ storedQueue = queue[p]

\* C3: a security or auth (cookie) error from the Sender fails the InFlight
\* job on that same attempt, retryCount and antiFloodCount unchanged.
C3_SecurityOrAuthFailsAtOnce ==
    [][\A p \in Cycles :
         (AttemptStep(p) /\ outcome'[p].kind = "throw"
            /\ outcome'[p].type \in {"security", "auth"}) =>
            LET old == Current(p)
                new == storedQueue'[sel[p]] IN
            /\ new.status = "error"
            /\ new.retryCount = old.retryCount
            /\ new.antiFloodCount = old.antiFloodCount]_vars

\* the Sender returned Success
OutcomeIsSuccess(o) ==
    o.kind = "response" /\ o.ok /\ o.parse /\ o.status = "ok"

\* C4 as stated: Success completes the InFlight job with retryCount and
\* antiFloodCount unchanged and notBeforeSeconds cleared.
C4_SuccessClearsWait ==
    [][\A p \in Cycles :
         (AttemptStep(p) /\ OutcomeIsSuccess(outcome'[p])) =>
            LET old == Current(p)
                new == storedQueue'[sel[p]] IN
            /\ new.status = "completed"
            /\ new.retryCount = old.retryCount
            /\ new.antiFloodCount = old.antiFloodCount
            /\ new.retryAfter = Undef]_vars

\* C4 as amended: Success completes the InFlight job with retryCount,
\* antiFloodCount and notBeforeSeconds (and every other field) unchanged.
C4_SuccessCompletesJob ==
    [][\A p \in Cycles :
         (AttemptStep(p) /\ OutcomeIsSuccess(outcome'[p])) =>
            LET old == Current(p)
                new == storedQueue'[sel[p]] IN
            /\ old.status = "processing"
            /\ new.status = "completed"
            /\ new.retryCount = old.retryCount
            /\ new.antiFloodCount = old.antiFloodCount
            /\ new.retryAfter = old.retryAfter
            /\ new.error = old.error
            /\ new.id = old.id /\ new.timestamp = old.timestamp]_vars

\* C4 witness: a job that carries a notBeforeSeconds from an earlier failed
\* attempt has just been completed by a Success outcome.
C4_Witness ==
    \E p \in Cycles :
        /\ pc[p] = "finish"
        /\ OutcomeIsSuccess(outcome[p])
        /\ Current(p).status = "completed"
        /\ Current(p).retryAfter # Undef
        /\ storedQueue = queue[p]

\* a Pending job is eligible at time t: no notBeforeSeconds, or t is at or
\* after enqueuedAt + notBeforeSeconds
Eligible(m, t) ==
    /\ m.status = "pending"
    /\ (m.retryAfter = Undef \/ t >= m.timestamp + m.retryAfter * 1000)

\* C5: a cycle never selects a Pending job with notBeforeSeconds = N and
\* enqueuedAt = T before T+N, and selects a job that is eligible (no
\* notBeforeSeconds, or the time is at or after T+N) whenever no eligible
\* job precedes it in the queue.
C5_NotBeforeIsRespected ==
    [][\A p \in Cycles : SelectStep(p) =>
         /\ pc'[p] = "send" =>
              LET m == queue[p][sel'[p]] IN
              /\ m.status = "pending"
              /\ m.retryAfter # Undef =>
                    now >= m.timestamp + m.retryAfter * 1000
         /\ \A k \in 1..Len(queue[p]) :
              (/\ Eligible(queue[p][k], now)
               /\ \A j \in 1..(k - 1) : ~Eligible(queue[p][j], now))
              => pc'[p] = "send" /\ sel'[p] = k]_vars

\* C5 witness: a job that had to wait (notBeforeSeconds set) has been
\* selected, at or after enqueuedAt + notBeforeSeconds.
C5_Witness ==
    \E p \in Cycles :
        /\ pc[p] = "send"
        /\ Current(p).retryAfter # Undef
        /\ Current(p).retryAfter > 0
        /\ now >= Current(p).timestamp + Current(p).retryAfter * 1000

\* C6: the job a cycle selects is the earliest-enqueued of the jobs eligible
\* at that instant; a waiting or non-Pending job earlier in the queue does
\* not block a later eligible one, and no eligible job is passed over.
C6_EarliestEligibleIsSelected ==
    [][\A p \in Cycles : SelectStep(p) =>
         LET q == queue[p]
             ready == {i \in 1..Len(q) : Eligible(q[i], now)} IN
         /\ ready # {} => pc'[p] = "send"
         /\ pc'[p] = "send" =>
              /\ sel'[p] \in ready
              /\ \A i \in ready :
                    /\ sel'[p] <= i
                    /\ q[sel'[p]].timestamp <= q[i].timestamp
              /\ storedQueue'[sel'[p]].status = "processing"]_vars

\* C6 witness: the second job of the queue has been selected while the
\* first one is Pending and still waiting.
C6_Witness ==
    \E p \in Cycles :
        /\ pc[p] = "send"
        /\ sel[p] = 2
        /\ queue[p][1].status = "pending"
        /\ queue[p][1].retryAfter # Undef
        /\ now < queue[p][1].timestamp + queue[p][1].retryAfter * 1000

\* C7: at most one job of the persisted queue is InFlight ('processing').
C7_AtMostOneInFlight ==
    Cardinality({i \in 1..Len(storedQueue) :
                    storedQueue[i].status = "processing"}) <= 1

\* C8: two processQueue cycles are never in progress at once.
C8_CyclesNeverOverlap ==
    Cardinality({p \in Cycles : pc[p] # "idle"}) <= 1

\* C9: a Failed job keeps its lifecycleState, retryCount and failureReason
\* for as long as it is in the persisted queue.
C9_FailedIsTerminal ==
    [][\A i \in 1..Len(storedQueue) :
         storedQueue[i].status = "error" =>
            \/ \A j \in 1..Len(storedQueue') :
                  storedQueue'[j].id # storedQueue[i].id
            \/ \E j \in 1..Len(storedQueue') :
                  /\ storedQueue'[j].id = storedQueue[i].id
                  /\ storedQueue'[j].status = "error"
                  /\ storedQueue'[j].retryCount = storedQueue[i].retryCount
                  /\ storedQueue'[j].error = storedQueue[i].error]_vars

\* addToMessageQueue has returned the id of this stored job
EnqueueReturned(m) ==
    \A c \in Clients : ~(cpc[c] \in {"add", "added"} /\ cnew[c] = m.id)

\* the step is the write of a removeFromQueue or clearCompletedMessages call
RemovalStep ==
    \E c \in Clients : cpc[c] \in {"remove", "clear"} /\ cpc'[c] = "idle"

\* C10: a job whose enqueue has returned stays in the persisted queue until
\* a remove or a sweep takes it out.
C10_EnqueueIsNotLost ==
    [][\A i \in 1..Len(storedQueue) :
         (EnqueueReturned(storedQueue[i]) /\ ~RemovalStep) =>
            \E j \in 1..Len(storedQueue') :
               storedQueue'[j].id = storedQueue[i].id]_vars

\* the step is the write of a removeFromQueue call of client c
RemoveStep(c) == cpc[c] = "remove" /\ cpc'[c] = "idle"

\* C11: a job that removeFromQueue took out of the persisted queue while it
\* was Pending, Completed or Failed never appears in it again, and the
\* removal leaves every other job of the persisted queue as it was.
C11_RemoveIsDurable ==
    [][/\ \A j \in 1..Len(storedQueue') : storedQueue'[j].id \notin removed'
       /\ \A c \in Clients : RemoveStep(c) =>
             LET Other(msg) == msg.id # carg[c] IN
             SelectSeq(storedQueue', Other) = SelectSeq(storedQueue, Other)]_vars

\* the step is the write of a clearCompletedMessages call of client c
SweepStep(c) == cpc[c] = "clear" /\ cpc'[c] = "idle"

\* a job the sweep with this age has to take out at this time
Expired(msg, hours, t) ==
    msg.status = "completed" /\ msg.timestamp < t - hours * 3600000

\* C12: the sweep takes out of the queue it read exactly the Completed jobs
\* whose timestamp is older than the cutoff; every other job (Pending,
\* InFlight, Failed, or Completed and recent) stays, with all its fields
\* and in the same relative order.
C12_SweepRemovesOldCompleted ==
    [][\A c \in Clients : SweepStep(c) =>
         LET old == cqueue[c]
             kept == {i \in 1..Len(old) : ~Expired(old[i], carg[c], now)} IN
         /\ Len(storedQueue') = Cardinality(kept)
         /\ \A i \in kept :
               storedQueue'[Cardinality({k \in kept : k <= i})] = old[i]]_vars

\* C12 witness: a sweep has just taken an old Completed job out of the
\* persisted queue and left a younger job in it.
C12_Witness ==
    \E c \in Clients :
        /\ cpc[c] = "idle"
        /\ Len(storedQueue) = 1
        /\ storedQueue[1].timestamp >= now - 3600000
        /\ \E p \in Cycles :
              /\ pc[p] = "select"
              /\ Len(queue[p]) = 2
              /\ queue[p][1].status = "completed"
              /\ queue[p][1].timestamp < now - 3600000
              /\ queue[p][2] = storedQueue[1]

\* C13: a job that was InFlight when the background page restarted stays in
\* the persisted queue exactly as it was (InFlight, every field unchanged),
\* and no attempt cycle selects it.
C13_InFlightAtRestartIsStuck ==
    [][/\ \A i \in 1..Len(storedQueue) :
            storedQueue[i] \in stuck =>
               /\ storedQueue[i].status = "processing"
               /\ \E j \in 1..Len(storedQueue') : storedQueue'[j] = storedQueue[i]
       /\ \A p \in Cycles :
            (SelectStep(p) /\ pc'[p] = "send") =>
               /\ queue[p][sel'[p]] \notin stuck
               /\ queue[p][sel'[p]].status = "pending"]_vars

\* C13 witness: after a restart that found a job InFlight, a job enqueued
\* later has been completed while the first is still InFlight.
C13_Witness ==
    /\ Len(storedQueue) = 2
    /\ storedQueue[1] \in stuck
    /\ storedQueue[1].status = "processing"
    /\ storedQueue[2].status = "completed"
    /\ \A p \in Cycles : pc[p] = "idle"

\* the step in which handleSwitchAccount invocation s returns
SwitchReturns(s) == sw[s].pc # "done" /\ sw'[s].pc = "done"

\* invocation s failed the verification after switchToAccountState: no
\* profile, or the profile of another user than the target account's
VerificationFailed(s) == sw[s].error \in {"noProfile", "mismatch"}

\* C14: when handleSwitchAccount fails its verification after the switch,
\* the persisted activeAccountId is, when the handler returns, what it was
\* when the handler was called.
C14_FailedSwitchKeepsActivePointer ==
    [][\A s \in Switches :
         (SwitchReturns(s) /\ VerificationFailed(s))
            => accountStates'.activeAccountId = sw[s].active0]_vars

\* C15: when handleSwitchAccount fails its verification and the replay of
\* the backed-up cookies goes through and is verified, the cookies and the
\* localStorage are, when the handler returns, what they were when the
\* handler was called.
C15_RollbackRestoresLiveState ==
    [][\A s \in Switches :
         (/\ SwitchReturns(s) /\ VerificationFailed(s)
          /\ sw[s].recovery = "replayed" /\ sw[s].replay = "all")
            => /\ jar' = sw[s].jar0
               /\ localStorage' = sw[s].local0]_vars

\* C16: at most one handleSwitchAccount invocation is past its guard and
\* has not returned.
C16_OneSwitchAtATime ==
    Cardinality({s \in Switches : sw[s].pc \notin {"idle", "done"}}) <= 1


\* the Synced snapshots of a blob that carry this user's profile
SyncedOf(states, u) ==
    {k \in DOMAIN states.accounts :
        states.accounts[k].status = "synced" /\ states.accounts[k].userId = u}

\* C17: starting from an empty Store, whatever snapshots are saved, the Store
\* never holds two Synced snapshots with different ids and the same
\* profile.externalUserId.
C17_SyncedUniquePerUser ==
    \A u \in Users :
        \A j, k \in SyncedOf(accountStates, u) :
            accountStates.accounts[j].id = accountStates.accounts[k].id

\* C17 witness: two saves have been made and the Store holds, under id 8, the
\* one Synced snapshot of user 7.
C17_Witness ==
    /\ calls = 2
    /\ \A c \in StoreClients : sc[c].pc = "idle"
    /\ DOMAIN accountStates.accounts = {8}
    /\ SyncedOf(accountStates, 7) = {8}
    /\ accountStates.activeAccountId = 8

\* the step is the write of a saveAccountState call of client c
SaveStep(c) == sc[c].pc = "save" /\ sc'[c].pc = "idle"

\* C18: save(s), where s carries a profile and other stored snapshots A
\* (A.id # s.id) carry the same profile.externalUserId, deletes every such A,
\* stores s under s.id, makes s.id the active pointer if A was active, and
\* leaves the snapshots other than A and s.id unchanged.
C18_SaveSupersedesDuplicates ==
    [][\A c \in StoreClients :
         LET old == sc[c].states
             s == sc[c].state
             dups == {k \in DOMAIN old.accounts :
                         /\ old.accounts[k].userId = s.userId
                         /\ old.accounts[k].id # s.id} IN
         (SaveStep(c) /\ s.userId # NoUser /\ dups # {}) =>
            /\ \A a \in dups :
                  /\ a \notin DOMAIN accountStates'.accounts
                  /\ old.activeAccountId = a =>
                        accountStates'.activeAccountId = s.id
            /\ s.id \in DOMAIN accountStates'.accounts
            /\ accountStates'.accounts[s.id].userId = s.userId
            /\ \A k \in DOMAIN old.accounts \ (dups \cup {s.id}) :
                  /\ k \in DOMAIN accountStates'.accounts
                  /\ accountStates'.accounts[k] = old.accounts[k]]_vars

\* C19: at most one snapshot of the Store is flagged isResyncing.
C19_AtMostOneResyncing ==
    Cardinality({k \in DOMAIN accountStates.accounts :
                    accountStates.accounts[k].isResyncing}) <= 1

\* the step is the write of a deleteAccountState call of client c
DeleteStep(c) == sc[c].pc = "delete" /\ sc'[c].pc = "idle"

\* C20: delete(id) takes the snapshot id out of the blob it read, clears the
\* active pointer exactly when it referenced id, clears the pending pointer
\* exactly when it referenced id, and leaves every other snapshot unchanged.
C20_DeleteFrame ==
    [][\A c \in StoreClients : DeleteStep(c) =>
         LET old == sc[c].states
             id == sc[c].id
             new == accountStates' IN
         /\ DOMAIN new.accounts = DOMAIN old.accounts \ {id}
         /\ \A k \in DOMAIN new.accounts : new.accounts[k] = old.accounts[k]
         /\ new.activeAccountId =
              (IF old.activeAccountId = id THEN NoId ELSE old.activeAccountId)
         /\ new.pendingAccountId =
              (IF old.pendingAccountId = id THEN NoId ELSE old.pendingAccountId)]_vars

\* C20 witness: the active snapshot has been deleted: the Store still holds
\* a saved snapshot (every save makes its snapshot active) and has no active
\* pointer.
C20_Witness ==
    /\ \A c \in StoreClients : sc[c].pc = "idle"
    /\ accountStates.activeAccountId = NoId
    /\ \E k \in Users : k \in DOMAIN accountStates.accounts

\* the step is the end of a startResyncing call of client c
ResyncStep(c) == sc[c].pc = "resync" /\ sc'[c].pc = "idle"

\* C21: startResyncing(id) for an id the Store does not hold throws
\* 'Account not found' and leaves the persisted blob as it was.
C21_ResyncOfMissingThrows ==
    [][\A c \in StoreClients :
         (ResyncStep(c) /\ sc[c].id \notin DOMAIN sc[c].states.accounts)
            => /\ sc'[c].thrown = "Account not found"
               /\ accountStates' = accountStates
               /\ accountStates' = sc[c].states]_vars

\* C21 witness: a startResyncing call has thrown 'Account not found' while
\* the Store holds other accounts.
C21_Witness ==
    /\ \E c \in StoreClients : sc[c].thrown = "Account not found"
    /\ DOMAIN accountStates.accounts # {}

\* the step is an importAccountData call of client c, from its first line to
\* its return
ImportStep(c) ==
    /\ sc'[c].pc = "idle" /\ sc'[c].data # NoData
    /\ sc[c].pc = "export" \/ calls' = calls + 1

\* the account lacks an id, a name, a cookies list, a localStorage of type
\* object, or a timestamp
AccountLacks(account) ==
    \/ account.value = "null"
    \/ account.id \in {"absent", "empty"}
    \/ account.name \in {"absent", "empty"}
    \/ account.cookies \in {"absent", "object"}
    \/ account.localStorage \in {"absent", "text"}
    \/ account.timestamp \in {"absent", "zero"}

\* the text is not JSON, not an object with `accounts`, or has an account
\* that lacks one of the fields
FailsValidation(data) ==
    \/ ~data.parses
    \/ data.top # "object"
    \/ "accounts" \notin data.fields
    \/ \E k \in DOMAIN data.accounts : AccountLacks(data.accounts[k])

C23_ExportImportRoundTrip ==
    [][\A c \in StoreClients :
         (sc[c].pc = "export" /\ sc'[c].pc = "idle")
            => /\ sc'[c].thrown = "none"
               /\ accountStates' = sc[c].states]_vars

\* the step is one of a sendForumPostWithStoredCookies call of client c
SendStep(c) ==
    /\ sc[c].pc \in {"send", "page", "post"}
    /\ sc'[c].pc \in {"page", "post", "idle"}
    /\ sc'[c] # sc[c]

\* C24: sendForumPostWithStoredCookies throws when the Store has no account
\* for accountId, and when the account has no xf_csrf cookie, and in both
\* cases no request (GET or POST) has been made.
C24_SenderFailsBeforeAnyRequest ==
    [][\A c \in StoreClients :
         (sc[c].pc = "send" /\ sc'[c].pc # "send")
            => LET states == sc[c].states
                   accountId == sc[c].id IN
               /\ accountId \notin DOMAIN states.accounts
                    => /\ sc'[c].pc = "idle" /\ sc'[c].pre = "noAccount"
                       /\ sc'[c].result.kind = "throw"
                       /\ sc'[c].requests = <<>>
               /\ (/\ accountId \in DOMAIN states.accounts
                   /\ ~sc'[c].csrfCookie)
                    => /\ sc'[c].pc = "idle" /\ sc'[c].pre = "noCsrf"
                       /\ sc'[c].result.kind = "throw"
                       /\ sc'[c].requests = <<>>]_vars

\* C24 witness: a send for a stored account whose cookies lack xf_csrf has
\* thrown for it.
C24_Witness ==
    \E c \in StoreClients :
       /\ sc[c].pc = "idle" /\ sc[c].pre = "noCsrf"
       /\ sc[c].id \in DOMAIN accountStates.accounts

\* C25: no step of sendForumPostWithStoredCookies, whatever its outcome,
\* changes the cookie jar, the localStorage or the persisted accountStates
\* (the active pointer and every stored account).
C25_SendLeavesLiveStateAlone ==
    [][\A c \in StoreClients : SendStep(c) =>
         /\ jar' = jar
         /\ localStorage' = localStorage
         /\ accountStates' = accountStates]_vars

\* C25 witness: a POST has been answered for an account that is not the
\* active one, while another user's cookies are in the jar.
C25_Witness ==
    \E c \in StoreClients :
       /\ sc[c].pc = "idle" /\ sc[c].requests = <<"GET", "POST">>
       /\ sc[c].result.kind # "none"
       /\ sc[c].id \in DOMAIN accountStates.accounts
       /\ accountStates.activeAccountId \notin {NoId, sc[c].id}
       /\ jar.auth \notin {NoUser, accountStates.accounts[sc[c].id].userId}

\* C26: a generic failure that reaches processQueue as a thrown value leaves
\* the job with the status, retryCount and retryAfter that the response
\* branches ("Other error", "HTTP error") give for the same job.
C26_ExceptionPathMatchesResponsePath ==
    [][\A p \in Cycles :
         (AttemptStep(p) /\ outcome'[p].kind = "throw"
            /\ outcome'[p].type = "none") =>
            LET old == Current(p)
                new == storedQueue'[sel[p]]
                byResponse == CountRetry(old, "HTTP error") IN
            /\ new.status = byResponse.status
            /\ new.retryCount = byResponse.retryCount
            /\ new.retryAfter = byResponse.retryAfter]_vars

\* C27: while handleSwitchAccount has not yet verified that the logged-in
\* user is the target account's, the persisted activeAccountId is not the
\* target (unless it was the target when the handler was called).
C27_PointerWrittenAfterVerification ==
    \A s \in Switches :
        (/\ sw[s].pc \in {"apply", "verify"}
         /\ sw[s].active0 # sw[s].accountId)
            => accountStates.activeAccountId # sw[s].accountId

\* the step in which switchToAccountState(accountId) of invocation s ends
ApplyStep(s) == sw[s].pc = "apply" /\ sw'[s].pc # "apply"

ClassOf(resp) ==
    IF ~resp.ok \/ ~resp.parse THEN "generic"
    ELSE IF resp.status = "ok" THEN "success"
    ELSE IF resp.status # "error" \/ resp.errors = <<>> THEN "generic"
    ELSE LET errorMsg == resp.errors[1] IN
         IF "cookie" \in errorMsg.kw THEN "auth"
         ELSE IF "wait" \in errorMsg.kw THEN "antiflood"
         ELSE IF "security" \in errorMsg.kw \/ "csrf" \in errorMsg.kw
         THEN "security"
         ELSE "generic"

\* C29: whatever the forum answers to the POST, the job is left as the class
\* of the answer says: success completes it; auth and security fail it at
\* once; anti-flood returns it to pending with retryAfter the parsed seconds
\* and retryCount unchanged; generic counts a retry and fails it at
\* MAX_RETRIES, else returns it to pending with retryAfter 30.
C29_TransitionFollowsClassification ==
    [][\A p \in Cycles : AttemptStep(p) =>
         \A in \in SenderInputs :
            (in.pre = "none" /\ SendForumPostWithStoredCookies(in) = outcome'[p]) =>
               LET old == Current(p)
                   new == storedQueue'[sel[p]]
                   class == ClassOf(in.resp) IN
               CASE class = "success" ->
                      new.status = "completed" /\ new.retryCount = old.retryCount
                 [] class \in {"auth", "security"} ->
                      new.status = "error" /\ new.retryCount = old.retryCount
                 [] class = "antiflood" ->
                      /\ new.status = "pending"
                      /\ new.retryAfter = WaitTime(in.resp.errors[1])
                      /\ new.retryCount = old.retryCount
                 [] OTHER ->
                      /\ new.retryCount = old.retryCount + 1
                      /\ IF old.retryCount + 1 >= MAX_RETRIES
                         THEN new.status = "error"
                         ELSE new.status = "pending" /\ new.retryAfter = RetryDelay]_vars

\* C30: a message whose last attempt was handled at time T and left it
\* pending with retryAfter N is not selected again before T + N seconds.
C30_RetryWaitsFromAttemptEnd ==
    [][\A p \in Cycles : (SelectStep(p) /\ pc'[p] = "send") =>
         LET m == queue[p][sel'[p]] IN
         (m.ended # Undef /\ m.retryAfter # Undef)
            => now >= m.ended + m.retryAfter * MsPerSecond]_vars

\* C31: a cycle whose queue holds no eligible pending message (it is empty,
\* or holds only processing, completed, failed or still waiting messages)
\* writes nothing to storage, does not call the Sender and resets
\* isProcessing.
C31_CycleWithoutEligibleJobIsNoOp ==
    [][\A p \in Cycles :
         (SelectStep(p)
            /\ \A k \in 1..Len(queue[p]) : ~Eligible(queue[p][k], now)) =>
            /\ storedQueue' = storedQueue
            /\ pc'[p] = "idle"
            /\ outcome' = outcome
            /\ ~isProcessing']_vars

\* C31 witness: a cycle has read a queue that holds a failed message and a
\* pending one that still has to wait, and nothing else.
C31_Witness ==
    \E p \in Cycles :
        /\ pc[p] = "select"
        /\ \E k \in 1..Len(queue[p]) : queue[p][k].status = "error"
        /\ \E k \in 1..Len(queue[p]) :
              queue[p][k].status = "pending" /\ ~Eligible(queue[p][k], now)
        /\ \A k \in 1..Len(queue[p]) : ~Eligible(queue[p][k], now)

\* C32: no message of the persisted queue ever has a retryCount above
\* MAX_RETRIES, whether its failures came as responses or as thrown values.
C32_RetryCountIsBounded ==
    \A i \in 1..Len(storedQueue) :
        storedQueue[i].retryCount \in 0..MAX_RETRIES

\* C33: an attempt leaves its message 'completed' only when the POST was
\* made and answered 2xx with a JSON body whose status is "ok"; not when the
\* Sender threw (missing account or xf_csrf, failed page load, network,
\* classified error), nor for a non-2xx answer, an unparsable body or any
\* other status.
C33_CompletedOnlyOnOkAnswer ==
    [][\A p \in Cycles :
         (AttemptStep(p) /\ storedQueue'[sel[p]].status = "completed") =>
            /\ Current(p).status = "processing"
            /\ \A in \in SenderInputs :
                  SendForumPostWithStoredCookies(in) = outcome'[p]
                     => /\ in.pre = "none"
                        /\ in.resp.ok /\ in.resp.parse
                        /\ in.resp.status = "ok"]_vars

\* C33 witness: the first attempt on a message was answered 2xx with status
\* "ok" and the message is completed in storage.
C33_Witness ==
    \E p \in Cycles :
        /\ pc[p] = "finish"
        /\ outcome[p].kind = "response" /\ outcome[p].ok
        /\ outcome[p].status = "ok"
        /\ storedQueue[sel[p]].status = "completed"
        /\ storedQueue[sel[p]].retryCount = 0
        /\ storedQueue[sel[p]].antiFloodCount = Undef

\* C34: a message that an attempt has posted with success is never
\* selected (and so never handed to the Sender) again.
C34_DeliveredOnce ==
    [][\A p \in Cycles : (SelectStep(p) /\ pc'[p] = "send") =>
         queue[p][sel'[p]].id \notin delivered]_vars

\* C35: whenever isProcessing is false, no message of the persisted queue
\* is 'processing'.
C35_NoInFlightWhenIdle ==
    ~isProcessing =>
        \A i \in 1..Len(storedQueue) : storedQueue[i].status # "processing"

\* C36: with the interval firing, time advancing, no removal, sweep, stop
\* or restart, no enqueue overlapping a cycle and a Sender that never
\* reports anti-flood, every enqueued message is eventually completed or
\* failed, and no message is attempted more than MAX_RETRIES + 1 times
\* (its retryCount never passes MAX_RETRIES + 1).
C36_EveryJobTerminates ==
    /\ \A i \in 1..MaxJobs :
          (Len(storedQueue) >= i)
             ~> (Len(storedQueue) >= i
                 /\ storedQueue[i].status \in {"completed", "error"})
    /\ [](\A i \in 1..Len(storedQueue) :
             storedQueue[i].retryCount <= MAX_RETRIES + 1)

\* C36 witness: two messages were enqueued; one is completed, the other has
\* failed after its retries, and no cycle is in progress.
C36_Witness ==
    /\ Len(storedQueue) = 2
    /\ \E i, j \in 1..2 :
          /\ storedQueue[i].status = "completed"
          /\ storedQueue[j].status = "error"
          /\ storedQueue[j].retryCount >= MAX_RETRIES
    /\ \A p \in Cycles : pc[p] = "idle"

\* C37: no two messages of the persisted queue have the same id.
C37_IdsAreUnique ==
    \A i, j \in 1..Len(storedQueue) :
        i # j => storedQueue[i].id # storedQueue[j].id

\* C38: activeAccountId and pendingAccountId of the persisted blob are each
\* undefined or a key of `accounts`.
C38_PointersNameStoredAccounts ==
    /\ accountStates.activeAccountId \in {NoId} \cup DOMAIN accountStates.accounts
    /\ accountStates.pendingAccountId \in {NoId} \cup DOMAIN accountStates.accounts

\* C39: when a saveAccountState(state) call has written, the persisted
\* activeAccountId is state.id, whatever it was and whether or not another
\* account was removed as a duplicate; and the account stored under
\* state.id is not flagged isResyncing when the one stored there before was.
C39_SaveActivatesAndClearsResync ==
    [][\A c \in StoreClients : SaveStep(c) =>
         LET s == sc[c].state IN
         /\ accountStates'.activeAccountId = s.id
         /\ s.id \in DOMAIN accountStates'.accounts
         /\ (s.id \in DOMAIN accountStates.accounts
             /\ accountStates.accounts[s.id].isResyncing)
               => ~accountStates'.accounts[s.id].isResyncing]_vars

\* C39 witness: a saveAccountState call has read a blob in which its account
\* is flagged isResyncing and the active account is another one.
C39_Witness ==
    \E c \in StoreClients :
       LET s == sc[c].state IN
       /\ sc[c].pc = "save"
       /\ s.id \in DOMAIN accountStates.accounts
       /\ accountStates.accounts[s.id].isResyncing
       /\ accountStates.activeAccountId \notin {NoId, s.id}

\* C40: in every reachable state the cookies stored in a synced account
\* are those of a session logged in as the account's own user: never those
\* of another user, never those of a logged-out session.
C40_StoredCookiesBelongToAccount ==
    \A k \in DOMAIN accountStates.accounts :
       accountStates.accounts[k].status = "synced"
          => accountStates.accounts[k].cookies.auth
                = accountStates.accounts[k].userId

====
